---------------------------- MODULE Spec2Model ----------------------------
(***************************************************************************)
(* gfx_types: geometry (Rect, Transform2D) and pixel-buffer addressing     *)
(* (BufferDescriptor, BufferView, BufferViewMut).                          *)
(*                                                                         *)
(* The library is a set of pure functions over plain values.  Every        *)
(* function is an operator computed as the Rust code computes it, and      *)
(* every specification is a state machine whose actions draw the           *)
(* arguments of one call from bounded sets, apply the function and record  *)
(* the call and what it returned (or that it panicked).                    *)
(*                                                                         *)
(* Integers keep their width.  A machine word has WordBits bits: u32 is    *)
(* the unsigned word, i32 the two's-complement word, usize the double      *)
(* word (usize as on a 64-bit target).  The code never names a             *)
(* width-dependent literal, so all of its arithmetic is the same at any    *)
(* word width; only the input sets are chosen relative to the width.       *)
(* Rust's `+`, `-`, `*` panic on overflow when the build has               *)
(* overflow checks (debug) and wrap otherwise (release): overflow_checks   *)
(* is that build choice, drawn in Init and never changed.                  *)
(***************************************************************************)
EXTENDS Integers, Sequences, FiniteSets, TLC

VARIABLES
    overflow_checks,  \* the build: TRUE = overflow panics, FALSE = it wraps
    call,             \* the last call made: [op, ...arguments]
    ret,              \* what the call returned: None, Some(v) or Panic
    object,           \* the value a sequence of calls works on (a polygon,
                      \* an accumulated clip or damage region); None where
                      \* every call stands alone
    history           \* the arguments that built object, oldest first

vars == <<overflow_checks, call, ret, object, history>>

---------------------------------------------------------------------------
(* Bounds *)

\* bits of a machine word (u32 / i32); usize has twice as many
WordBits == 10

\* points are quantified over [-PointSpan, PointSpan] around the rectangles
PointSpan == 2

\* the largest finite f32 of the model, standing for f32::MAX
FloatMax == 1000

---------------------------------------------------------------------------
(* Rust values *)

None == [tag |-> "None"]
Some(v) == [tag |-> "Some", val |-> v]
Panic == [tag |-> "Panic"]
\* a function that returns a plain value (not an Option) returned v
Ret(v) == [tag |-> "Ret", val |-> v]

IsSome(r) == r.tag = "Some"
IsNone(r) == r.tag = "None"
IsPanic(r) == r.tag = "Panic"
IsRet(r) == r.tag = "Ret"

RECURSIVE Pow2(_)
Pow2(n) == IF n = 0 THEN 1 ELSE 2 * Pow2(n - 1)

U32_MOD == Pow2(WordBits)
U32_MAX == U32_MOD - 1
I32_MAX == Pow2(WordBits - 1) - 1
I32_MIN == -Pow2(WordBits - 1)
USIZE_MOD == Pow2(2 * WordBits)
USIZE_MAX == USIZE_MOD - 1

Min(a, b) == IF a <= b THEN a ELSE b
Max(a, b) == IF a >= b THEN a ELSE b

\* the value a wrapping u32 / usize operation leaves
WrapU32(n) == n % U32_MOD
WrapUsize(n) == n % USIZE_MOD
\* the value a wrapping i32 operation leaves (two's complement)
WrapI32(n) == ((n - I32_MIN) % U32_MOD) + I32_MIN

InU32(n) == 0 <= n /\ n <= U32_MAX
InI32(n) == I32_MIN <= n /\ n <= I32_MAX
InUsize(n) == 0 <= n /\ n <= USIZE_MAX

\* the outcome of a call whose arithmetic overflowed iff `overflowed` and
\* which, with wrapping arithmetic, returns r
Outcome(overflowed, r) == IF overflowed /\ overflow_checks THEN Panic ELSE r

---------------------------------------------------------------------------
(* color/format.rs: PixelFormat *)

PixelFormat ==
    {"ARGB8888", "XRGB8888", "RGB565", "BGRA8888", "RGBA8888",
     "RGB888", "BGR888", "Gray8", "Gray16", "Alpha8"}

bytes_per_pixel(f) ==
    CASE f \in {"ARGB8888", "XRGB8888", "BGRA8888", "RGBA8888"} -> 4
      [] f \in {"RGB888", "BGR888"} -> 3
      [] f \in {"RGB565", "Gray16"} -> 2
      [] f \in {"Gray8", "Alpha8"} -> 1

---------------------------------------------------------------------------
(* geometry/rect.rs: Rect *)

Rect_new(x, y, width, height) ==
    [x |-> x, y |-> y, width |-> width, height |-> height]

\* i32::saturating_add
saturating_add(a, b) == Max(I32_MIN, Min(I32_MAX, a + b))

\* `self.width as i32` reinterprets the word: widths above i32::MAX come
\* out negative
right(r) == saturating_add(r.x, WrapI32(r.width))
bottom(r) == saturating_add(r.y, WrapI32(r.height))

is_empty(r) == r.width = 0 \/ r.height = 0

contains_point(r, p) ==
    p.x >= r.x /\ p.x < right(r) /\ p.y >= r.y /\ p.y < bottom(r)

contains_rect(r, other) ==
    /\ other.x >= r.x
    /\ other.y >= r.y
    /\ right(other) <= right(r)
    /\ bottom(other) <= bottom(r)

intersects(r, other) ==
    /\ r.x < right(other)
    /\ right(r) > other.x
    /\ r.y < bottom(other)
    /\ bottom(r) > other.y

\* the i32 differences x2 - x1 and y2 - y1, taken only when x1 < x2 and
\* y1 < y2
intersection_overflows(r, other) ==
    LET x1 == Max(r.x, other.x)
        y1 == Max(r.y, other.y)
        x2 == Min(right(r), right(other))
        y2 == Min(bottom(r), bottom(other))
    IN  x1 < x2 /\ y1 < y2 /\ (~InI32(x2 - x1) \/ ~InI32(y2 - y1))

\* intersection measuring the overlap from self's own left and top edge
intersection_from_self(r, other) ==
    LET x1 == Max(r.x, other.x)
        y1 == Max(r.y, other.y)
        x2 == Min(right(r), right(other))
        y2 == Min(bottom(r), bottom(other))
    IN  IF x1 < x2 /\ y1 < y2
        THEN Some(Rect_new(x1, y1, WrapU32(WrapI32(x2 - r.x)),
                           WrapU32(WrapI32(y2 - r.y))))
        ELSE None

\* `(x2 - x1) as u32`: the i32 difference, reinterpreted as unsigned
intersection(r, other) ==
    LET x1 == Max(r.x, other.x)
        y1 == Max(r.y, other.y)
        x2 == Min(right(r), right(other))
        y2 == Min(bottom(r), bottom(other))
    IN  IF x1 < x2 /\ y1 < y2
        THEN Some(Rect_new(x1, y1, WrapU32(WrapI32(x2 - x1)),
                           WrapU32(WrapI32(y2 - y1))))
        ELSE None

\* the i32 differences of union, taken when neither side is empty
union_overflows(r, other) ==
    LET x1 == Min(r.x, other.x)
        y1 == Min(r.y, other.y)
        x2 == Max(right(r), right(other))
        y2 == Max(bottom(r), bottom(other))
    IN  ~is_empty(r) /\ ~is_empty(other)
        /\ (~InI32(x2 - x1) \/ ~InI32(y2 - y1))

union(r, other) ==
    IF is_empty(r) THEN other
    ELSE IF is_empty(other) THEN r
    ELSE LET x1 == Min(r.x, other.x)
             y1 == Min(r.y, other.y)
             x2 == Max(right(r), right(other))
             y2 == Max(bottom(r), bottom(other))
         IN  Rect_new(x1, y1, WrapU32(WrapI32(x2 - x1)),
                      WrapU32(WrapI32(y2 - y1)))

---------------------------------------------------------------------------
(* buffer/descriptor.rs: BufferDescriptor *)

BufferDescriptor_with_stride(width, height, stride, format) ==
    [width |-> width, height |-> height, stride |-> stride, format |-> format]

\* `width * format.bytes_per_pixel()` is a u32 product
BufferDescriptor_new_overflows(width, format) ==
    ~InU32(width * bytes_per_pixel(format))

BufferDescriptor_new(width, height, format) ==
    [width |-> width, height |-> height,
     stride |-> WrapU32(width * bytes_per_pixel(format)),
     format |-> format]

\* (stride as usize) * (height as usize): always fits the double word
size_bytes(d) == WrapUsize(d.stride * d.height)

\* (y as usize * stride as usize) + (x as usize * bpp as usize):
\* the two products fit usize, the sum need not
pixel_offset_overflows(d, x, y) ==
    ~InUsize(y * d.stride + x * bytes_per_pixel(d.format))

pixel_offset(d, x, y) ==
    WrapUsize(WrapUsize(y * d.stride) + WrapUsize(x * bytes_per_pixel(d.format)))

row_offset(d, y) == WrapUsize(y * d.stride)

\* self.width * bpp, a u32 product
bytes_per_row_overflows(d) == ~InU32(d.width * bytes_per_pixel(d.format))

bytes_per_row(d) == WrapU32(d.width * bytes_per_pixel(d.format))

\* Which of the arithmetic steps sub_region reaches overflows: the two u32
\* sums of the bounds check (`||` evaluates the second only when the first
\* comparison is false), then pixel_offset.
sub_region_overflows(d, rect) ==
    /\ rect.x >= 0 /\ rect.y >= 0
    /\ \/ ~InU32(rect.x + rect.width)
       \/ /\ rect.x + rect.width <= d.width
          /\ ~InU32(rect.y + rect.height)
       \/ /\ rect.x + rect.width <= d.width
          /\ rect.y + rect.height <= d.height
          /\ pixel_offset_overflows(d, rect.x, rect.y)

\* sub_region with the carved descriptor's stride recomputed from its width
sub_region_restrided(d, rect) ==
    IF rect.x < 0 \/ rect.y < 0
    THEN None
    ELSE IF WrapU32(rect.x + rect.width) > d.width
            \/ WrapU32(rect.y + rect.height) > d.height
         THEN None
         ELSE Some(<<[width |-> rect.width, height |-> rect.height,
                      stride |-> WrapU32(rect.width * bytes_per_pixel(d.format)),
                      format |-> d.format],
                     pixel_offset(d, rect.x, rect.y)>>)

\* Option<(Self, usize)>; the sums are the wrapped ones
sub_region(d, rect) ==
    IF rect.x < 0 \/ rect.y < 0
    THEN None
    ELSE LET x == rect.x
             y == rect.y
         IN  IF WrapU32(x + rect.width) > d.width
                \/ WrapU32(y + rect.height) > d.height
             THEN None
             ELSE Some(<<[width |-> rect.width, height |-> rect.height,
                          stride |-> d.stride, format |-> d.format],
                         pixel_offset(d, x, y)>>)

---------------------------------------------------------------------------
(* buffer/view.rs: BufferView, BufferViewMut.  The byte slice is modelled  *)
(* by its length; a sub-slice data[start..end] by its two indices.         *)

\* BufferView::new demanding one byte more than size_bytes
BufferView_new_strict(data_len, desc) ==
    IF data_len > size_bytes(desc)
    THEN Some([data_len |-> data_len, desc |-> desc, mutable |-> FALSE])
    ELSE None

BufferView_new(data_len, desc) ==
    IF data_len >= size_bytes(desc)
    THEN Some([data_len |-> data_len, desc |-> desc, mutable |-> FALSE])
    ELSE None

BufferViewMut_new(data_len, desc) ==
    IF data_len >= size_bytes(desc)
    THEN Some([data_len |-> data_len, desc |-> desc, mutable |-> TRUE])
    ELSE None

\* `start + self.desc.bytes_per_row() as usize`: the u32 product inside
\* bytes_per_row, then the usize sum
row_overflows(v, y) ==
    /\ y < v.desc.height
    /\ \/ bytes_per_row_overflows(v.desc)
       \/ ~InUsize(row_offset(v.desc, y) + bytes_per_row(v.desc))

\* &data[start..end] panics, in every build, unless start <= end <= len
Slice(data_len, start, end) ==
    IF start <= end /\ end <= data_len
    THEN Some([start |-> start, end |-> end])
    ELSE Panic

\* row slicing a whole stride, padding included
BufferView_row_stride(v, y) ==
    IF y >= v.desc.height
    THEN None
    ELSE LET start == row_offset(v.desc, y)
             end == WrapUsize(start + v.desc.stride)
         IN  Slice(v.data_len, start, end)

BufferView_row(v, y) ==
    IF y >= v.desc.height
    THEN None
    ELSE LET start == row_offset(v.desc, y)
             end == WrapUsize(start + bytes_per_row(v.desc))
         IN  Outcome(row_overflows(v, y), Slice(v.data_len, start, end))

BufferViewMut_row_mut(v, y) ==
    IF y >= v.desc.height
    THEN None
    ELSE LET start == row_offset(v.desc, y)
             end == WrapUsize(start + bytes_per_row(v.desc))
         IN  Outcome(row_overflows(v, y), Slice(v.data_len, start, end))

---------------------------------------------------------------------------
(* Buffer addressing: the calls and their arguments *)

DescWidths == {0, 1, 3, 100, Pow2(WordBits - 2), U32_MAX}
DescHeights == {0, 1, 2, 100, U32_MAX}
DescStrides == {0, 8, 400, U32_MAX}
DescFormats == {"ARGB8888", "RGB888", "RGB565", "Gray8"}

\* the descriptors a caller can hold: any with_stride, and every new that
\* returned
Descs ==
    {BufferDescriptor_with_stride(w, h, s, f) :
        w \in DescWidths, h \in DescHeights, s \in DescStrides, f \in DescFormats}
    \cup
    {BufferDescriptor_new(w[1], w[2], w[3]) :
        w \in {a \in DescWidths \X DescHeights \X DescFormats :
                  ~(overflow_checks /\ BufferDescriptor_new_overflows(a[1], a[3]))}}

RegionRects ==
    {Rect_new(x, y, w, h) :
        x \in {-1, 0, 1, 2, I32_MAX}, y \in {-1, 0, 1},
        w \in {0, 1, 2, 99, U32_MAX - 1, U32_MAX}, h \in {0, 1, 2, U32_MAX}}

PixelCoords == {0, 1, 2, 99, U32_MAX}
RowYs == PixelCoords \cup {100}

DataLens(d) ==
    {0, Max(size_bytes(d), 1) - 1, size_bytes(d), size_bytes(d) + 5}

\* no call has been made yet: each run makes one call on fresh arguments
\* (and may go on to use the value it returned)
Idle == call.op = "none"

InitBuffer ==
    /\ overflow_checks \in BOOLEAN
    /\ call = [op |-> "none"]
    /\ ret = None
    /\ object = None
    /\ history = <<>>

New ==
    /\ Idle
    /\ \E w \in DescWidths, h \in DescHeights, f \in DescFormats :
        /\ call' = [op |-> "BufferDescriptor::new",
                    width |-> w, height |-> h, format |-> f]
        /\ ret' = Outcome(BufferDescriptor_new_overflows(w, f),
                          Ret(BufferDescriptor_new(w, h, f)))
        /\ UNCHANGED <<overflow_checks, object, history>>

SizeBytes ==
    /\ Idle
    /\ \E d \in Descs :
        /\ call' = [op |-> "size_bytes", self |-> d]
        /\ ret' = Ret(size_bytes(d))
        /\ UNCHANGED <<overflow_checks, object, history>>

PixelOffset ==
    /\ Idle
    /\ \E d \in Descs, x \in PixelCoords, y \in PixelCoords :
        /\ call' = [op |-> "pixel_offset", self |-> d, x |-> x, y |-> y]
        /\ ret' = Outcome(pixel_offset_overflows(d, x, y), Ret(pixel_offset(d, x, y)))
        /\ UNCHANGED <<overflow_checks, object, history>>

RowOffset ==
    /\ Idle
    /\ \E d \in Descs, y \in PixelCoords :
        /\ call' = [op |-> "row_offset", self |-> d, y |-> y]
        /\ ret' = Ret(row_offset(d, y))
        /\ UNCHANGED <<overflow_checks, object, history>>

SubRegion ==
    /\ Idle
    /\ \E d \in Descs, rect \in RegionRects :
        /\ call' = [op |-> "sub_region", self |-> d, rect |-> rect]
        /\ ret' = Outcome(sub_region_overflows(d, rect), sub_region(d, rect))
        /\ UNCHANGED <<overflow_checks, object, history>>

ViewNew ==
    /\ Idle
    /\ \E d \in Descs :
        \E n \in DataLens(d) :
            /\ call' = [op |-> "BufferView::new", data_len |-> n, desc |-> d]
            /\ ret' = BufferView_new(n, d)
            /\ UNCHANGED <<overflow_checks, object, history>>

ViewMutNew ==
    /\ Idle
    /\ \E d \in Descs :
        \E n \in DataLens(d) :
            /\ call' = [op |-> "BufferViewMut::new", data_len |-> n, desc |-> d]
            /\ ret' = BufferViewMut_new(n, d)
            /\ UNCHANGED <<overflow_checks, object, history>>

\* row is called on a view that BufferView::new returned
Row ==
    /\ call.op = "BufferView::new" /\ IsSome(ret)
    /\ \E y \in RowYs :
        /\ call' = [op |-> "row", self |-> ret.val, y |-> y]
        /\ ret' = BufferView_row(ret.val, y)
        /\ UNCHANGED <<overflow_checks, object, history>>

RowMut ==
    /\ call.op = "BufferViewMut::new" /\ IsSome(ret)
    /\ \E y \in RowYs :
        /\ call' = [op |-> "row_mut", self |-> ret.val, y |-> y]
        /\ ret' = BufferViewMut_row_mut(ret.val, y)
        /\ UNCHANGED <<overflow_checks, object, history>>

NextBuffer ==
    \/ New
    \/ SizeBytes
    \/ PixelOffset
    \/ RowOffset
    \/ SubRegion
    \/ ViewNew
    \/ ViewMutNew
    \/ Row
    \/ RowMut

SpecBuffer == InitBuffer /\ [][NextBuffer]_vars

---------------------------------------------------------------------------
(* Claims on buffer addressing (SpecBuffer) *)

\* rect lies entirely inside the buffer, the sums taken as exact integers
RectInside(d, rect) ==
    /\ rect.x >= 0 /\ rect.y >= 0
    /\ rect.x + rect.width <= d.width
    /\ rect.y + rect.height <= d.height

\* C1: sub_region(rect) returns None for every rect that is not entirely
\* inside the buffer (negative origin, or x + width > self.width, or
\* y + height > self.height as exact integers): it neither panics nor
\* accepts the rect after a wrapped sum.
C1_OutsideIsNone ==
    (call.op = "sub_region" /\ ~RectInside(call.self, call.rect)) => ret = None

\* C2: for a rect entirely inside the buffer, sub_region returns
\* Some((d, off)) where d has the rect's width and height and the parent's
\* stride and format, and off is the parent's pixel_offset(rect.x, rect.y).
C2_InsideIsSome ==
    (call.op = "sub_region" /\ RectInside(call.self, call.rect)) =>
        /\ IsSome(ret)
        /\ ret.val[1].width = call.rect.width
        /\ ret.val[1].height = call.rect.height
        /\ ret.val[1].stride = call.self.stride
        /\ ret.val[1].format = call.self.format
        /\ ret.val[2] = call.rect.y * call.self.stride
                          + call.rect.x * bytes_per_pixel(call.self.format)
        /\ ~pixel_offset_overflows(call.self, call.rect.x, call.rect.y)
        /\ ret.val[2] = pixel_offset(call.self, call.rect.x, call.rect.y)

\* a sub-rectangle with a positive origin and area was carved from a
\* buffer with row padding
C2_Witness ==
    /\ call.op = "sub_region" /\ RectInside(call.self, call.rect)
    /\ call.rect.x > 0 /\ call.rect.y > 0
    /\ call.rect.width > 0 /\ call.rect.height > 0
    /\ call.self.stride > call.self.width * bytes_per_pixel(call.self.format)
    /\ IsSome(ret) /\ ret.val[2] > 0

\* C3: pixel_offset(x, y) = y*stride + x*bytes_per_pixel and
\* row_offset(y) = y*stride as exact integers for every descriptor, and
\* BufferDescriptor::new(w, h, ARGB8888) has stride w*4, so that its
\* pixel_offset(x, y) = y*w*4 + x*4 for all x < w and y < h.
C3_OffsetsExact ==
    /\ call.op = "pixel_offset" =>
            ret = Ret(call.y * call.self.stride
                      + call.x * bytes_per_pixel(call.self.format))
    /\ call.op = "row_offset" => ret = Ret(call.y * call.self.stride)
    /\ (call.op = "BufferDescriptor::new" /\ call.format = "ARGB8888") =>
            (IsRet(ret) /\ ret.val.stride = call.width * 4)
    /\ ( /\ call.op = "pixel_offset"
         /\ call.self = BufferDescriptor_new(call.self.width, call.self.height,
                                             "ARGB8888")
         /\ call.x < call.self.width /\ call.y < call.self.height ) =>
            ret = Ret(call.y * call.self.width * 4 + call.x * 4)

\* the documented example: 100x100 ARGB8888
C3_Example ==
    LET d == BufferDescriptor_new(100, 100, "ARGB8888")
    IN  /\ (call.op = "pixel_offset" /\ call.self = d /\ call.x = 1 /\ call.y = 0)
            => ret = Ret(4)
        /\ (call.op = "pixel_offset" /\ call.self = d /\ call.x = 0 /\ call.y = 1)
            => ret = Ret(400)
        /\ (call.op = "size_bytes" /\ call.self = d) => ret = Ret(40000)

\* C7: BufferView::new and BufferViewMut::new return None iff
\* data.len() < stride * height, and otherwise a view over desc and data;
\* so every view a row call is made on has data.len() >= stride * height.
C7_ViewNewChecksLength ==
    /\ call.op \in {"BufferView::new", "BufferViewMut::new"} =>
        /\ IsNone(ret) <=> call.data_len < call.desc.stride * call.desc.height
        /\ ~IsNone(ret) =>
            /\ IsSome(ret)
            /\ ret.val.desc = call.desc
            /\ ret.val.data_len = call.data_len
            /\ ret.val.data_len >= size_bytes(ret.val.desc)
    /\ call.op \in {"row", "row_mut"} =>
            call.self.data_len >= call.self.desc.stride * call.self.desc.height

\* a view was built over a slice of exactly size_bytes bytes
C7_Witness ==
    /\ call.op \in {"BufferView::new", "BufferViewMut::new"}
    /\ call.desc.stride * call.desc.height > 0
    /\ call.data_len = call.desc.stride * call.desc.height
    /\ IsSome(ret)

\* a view was refused for a slice one byte short of size_bytes
C7_RefusedWitness ==
    /\ call.op \in {"BufferView::new", "BufferViewMut::new"}
    /\ call.data_len = call.desc.stride * call.desc.height - 1
    /\ IsNone(ret)

\* C8: on a view whose descriptor has stride >= width*bytes_per_pixel,
\* row(y) / row_mut(y) return None iff y >= height, and otherwise exactly
\* data[y*stride .. y*stride + width*bytes_per_pixel): no stride padding,
\* and no byte of any other row.
C8_RowIsExact ==
    (call.op \in {"row", "row_mut"}
     /\ call.self.desc.stride
            >= call.self.desc.width * bytes_per_pixel(call.self.desc.format)) =>
        LET d == call.self.desc
            len == d.width * bytes_per_pixel(d.format)
            other(y2) == IF call.op = "row"
                         THEN BufferView_row(call.self, y2)
                         ELSE BufferViewMut_row_mut(call.self, y2)
        IN  /\ IsNone(ret) <=> call.y >= d.height
            /\ call.y < d.height =>
                /\ ret = Some([start |-> call.y * d.stride,
                               end |-> call.y * d.stride + len])
                /\ ret.val.end <= (call.y + 1) * d.stride
                /\ \A y2 \in RowYs :
                        (y2 < d.height /\ y2 # call.y) =>
                            /\ IsSome(other(y2))
                            /\ \/ ret.val.end <= other(y2).val.start
                               \/ other(y2).val.end <= ret.val.start

\* a row past the first was sliced out of a padded, multi-row buffer
C8_Witness ==
    /\ call.op \in {"row", "row_mut"}
    /\ call.self.desc.stride
            > call.self.desc.width * bytes_per_pixel(call.self.desc.format)
    /\ call.self.desc.width > 0
    /\ call.y >= 1 /\ call.y < call.self.desc.height
    /\ IsSome(ret) /\ ret.val.end > ret.val.start

\* C25: for every view accepted by BufferView::new or BufferViewMut::new,
\* whatever its descriptor (descriptors built with with_stride where
\* stride < width*bytes_per_pixel included), row(y) / row_mut(y) with
\* y < height never slice beyond data.len():
\* row_offset(y) + bytes_per_row() <= data.len(), so the call returns Some
\* without panicking.
C25_RowStaysInsideData ==
    (call.op \in {"row", "row_mut"} /\ call.y < call.self.desc.height) =>
        /\ row_offset(call.self.desc, call.y)
             + call.self.desc.width * bytes_per_pixel(call.self.desc.format)
                <= call.self.data_len
        /\ IsSome(ret)

\* C26: for every successful sub_region(rect) = Some((d, off)) of a
\* descriptor p with stride >= width*bytes_per_pixel, the carved descriptor
\* fits in the parent's storage after the offset:
\* off + d.size_bytes() <= p.size_bytes(), so that
\* BufferView::new(&data[off..], d) succeeds whenever
\* BufferView::new(data, p) succeeds with data.len() == p.size_bytes().
C26_SubRegionFitsParent ==
    ( /\ call.op = "sub_region" /\ IsSome(ret)
      /\ call.self.stride
            >= call.self.width * bytes_per_pixel(call.self.format) ) =>
        /\ ret.val[2] + size_bytes(ret.val[1]) <= size_bytes(call.self)
        /\ IsSome(BufferView_new(size_bytes(call.self) - ret.val[2], ret.val[1]))

---------------------------------------------------------------------------
(* geometry/point.rs: Point.  i64 is twice as wide as i32. *)

I64_MAX == Pow2(2 * WordBits - 1) - 1
I64_MIN == -Pow2(2 * WordBits - 1)
InI64(n) == I64_MIN <= n /\ n <= I64_MAX
WrapI64(n) == ((n - I64_MIN) % Pow2(2 * WordBits)) + I64_MIN

Point_new(x, y) == [x |-> x, y |-> y]

\* the coordinates are subtracted as i32 and the difference is widened
delta(a, b) == WrapI32(a - b)

distance_squared_overflows(p, other) ==
    LET dx == delta(p.x, other.x)
        dy == delta(p.y, other.y)
    IN  \/ ~InI32(p.x - other.x)
        \/ ~InI32(p.y - other.y)
        \/ ~InI64(dx * dx)
        \/ ~InI64(dy * dy)
        \/ ~InI64(dx * dx + dy * dy)

distance_squared(p, other) ==
    LET dx == delta(p.x, other.x)
        dy == delta(p.y, other.y)
    IN  WrapI64(WrapI64(dx * dx) + WrapI64(dy * dy))

---------------------------------------------------------------------------
(* buffer/region.rs: BufferRegion *)

BufferRegion_new(x, y, width, height) ==
    [x |-> x, y |-> y, width |-> width, height |-> height]

\* from_rect that takes the clamped part off the extent
from_rect_shrinking(rect) ==
    BufferRegion_new(WrapU32(Max(rect.x, 0)), WrapU32(Max(rect.y, 0)),
                     Max(0, rect.width - (Max(rect.x, 0) - rect.x)),
                     Max(0, rect.height - (Max(rect.y, 0) - rect.y)))

from_rect(rect) ==
    BufferRegion_new(WrapU32(Max(rect.x, 0)), WrapU32(Max(rect.y, 0)),
                     rect.width, rect.height)

---------------------------------------------------------------------------
(* Rectangle algebra: the calls and their arguments *)

RectXs == {I32_MIN, -3, 0, 50, I32_MAX - 1, I32_MAX}
RectWidths == {0, 1, 3, 100, Pow2(WordBits - 1), U32_MAX}
RectYs == {I32_MIN, 0, 50}
RectHeights == {0, 2, 100}

Rects ==
    {Rect_new(x, y, w, h) :
        x \in RectXs, y \in RectYs, w \in RectWidths, h \in RectHeights}

Points == {[x |-> x, y |-> y] : x \in RectXs \cup {1, 149}, y \in RectYs \cup {1, 149}}

InitRect ==
    /\ overflow_checks \in BOOLEAN
    /\ call = [op |-> "none"]
    /\ ret = None
    /\ object = None
    /\ history = <<>>

ContainsPoint ==
    /\ Idle
    /\ \E r \in Rects, p \in Points :
        /\ call' = [op |-> "contains_point", self |-> r, p |-> p]
        /\ ret' = Ret(contains_point(r, p))
        /\ UNCHANGED <<overflow_checks, object, history>>

ContainsRect ==
    /\ Idle
    /\ \E r \in Rects, other \in Rects :
        /\ call' = [op |-> "contains_rect", self |-> r, other |-> other]
        /\ ret' = Ret(contains_rect(r, other))
        /\ UNCHANGED <<overflow_checks, object, history>>

Intersects ==
    /\ Idle
    /\ \E r \in Rects, other \in Rects :
        /\ call' = [op |-> "intersects", self |-> r, other |-> other]
        /\ ret' = Ret(intersects(r, other))
        /\ UNCHANGED <<overflow_checks, object, history>>

Intersection ==
    /\ Idle
    /\ \E r \in Rects, other \in Rects :
        /\ call' = [op |-> "intersection", self |-> r, other |-> other]
        /\ ret' = Outcome(intersection_overflows(r, other), intersection(r, other))
        /\ UNCHANGED <<overflow_checks, object, history>>

Union ==
    /\ Idle
    /\ \E r \in Rects, other \in Rects :
        /\ call' = [op |-> "union", self |-> r, other |-> other]
        /\ ret' = Outcome(union_overflows(r, other), Ret(union(r, other)))
        /\ UNCHANGED <<overflow_checks, object, history>>

Right ==
    /\ Idle
    /\ \E r \in Rects :
        /\ call' = [op |-> "right", self |-> r]
        /\ ret' = Ret(right(r))
        /\ UNCHANGED <<overflow_checks, object, history>>

Bottom ==
    /\ Idle
    /\ \E r \in Rects :
        /\ call' = [op |-> "bottom", self |-> r]
        /\ ret' = Ret(bottom(r))
        /\ UNCHANGED <<overflow_checks, object, history>>

DistanceSquared ==
    /\ Idle
    /\ \E p \in Points, other \in Points :
        /\ call' = [op |-> "distance_squared", self |-> p, other |-> other]
        /\ ret' = Outcome(distance_squared_overflows(p, other),
                          Ret(distance_squared(p, other)))
        /\ UNCHANGED <<overflow_checks, object, history>>

FromRect ==
    /\ Idle
    /\ \E r \in Rects :
        /\ call' = [op |-> "from_rect", rect |-> r]
        /\ ret' = Ret(from_rect(r))
        /\ UNCHANGED <<overflow_checks, object, history>>

NextRect ==
    \/ ContainsPoint
    \/ ContainsRect
    \/ Intersects
    \/ Intersection
    \/ Union
    \/ Right
    \/ Bottom
    \/ DistanceSquared
    \/ FromRect

SpecRect == InitRect /\ [][NextRect]_vars

---------------------------------------------------------------------------
(* Claims on the rectangle algebra (SpecRect) *)

\* C4: for all rectangles r1, r2, empty ones included,
\* r1.intersection(&r2) is None if and only if r1.intersects(&r2) is false.
C4_NoneIffNotIntersects ==
    call.op = "intersection" =>
        (IsNone(ret) <=> ~intersects(call.self, call.other))

\* the coordinates at which membership in r1, r2 or i can change, and
\* their neighbours
ProbeCoords(edges) ==
    {c + k : c \in edges, k \in (-PointSpan)..PointSpan} \cap (I32_MIN..I32_MAX)

ProbePoints(r1, r2, i) ==
    {[x |-> x, y |-> y] :
        x \in ProbeCoords({r1.x, right(r1), r2.x, right(r2), i.x, right(i)}),
        y \in ProbeCoords({r1.y, bottom(r1), r2.y, bottom(r2), i.y, bottom(i)})}

\* C5: whenever r1.intersection(&r2) is Some(i): i is non-empty, r1 and r2
\* both contain i (contains_rect), and a point is in i (contains_point) if
\* and only if it is in both r1 and r2; (0,0,100,100) with (50,50,100,100)
\* gives (50,50,50,50).
C5_IntersectionIsTheOverlap ==
    /\ (call.op = "intersection" /\ ~IsNone(ret)) =>
        /\ IsSome(ret)
        /\ ~is_empty(ret.val)
        /\ contains_rect(call.self, ret.val)
        /\ contains_rect(call.other, ret.val)
        /\ \A p \in ProbePoints(call.self, call.other, ret.val) :
                contains_point(ret.val, p)
                    <=> (contains_point(call.self, p) /\ contains_point(call.other, p))
    /\ ( /\ call.op = "intersection"
         /\ call.self = Rect_new(0, 0, 100, 100)
         /\ call.other = Rect_new(50, 50, 100, 100) ) =>
            ret = Some(Rect_new(50, 50, 50, 50))

\* two rectangles overlapped in part: the intersection is neither of them
C5_Witness ==
    /\ call.op = "intersection" /\ IsSome(ret)
    /\ ret.val # call.self /\ ret.val # call.other
    /\ ret.val.x > call.self.x /\ right(ret.val) < right(call.other)

\* u with one column or row taken off the given side
Shrunk(u, side) ==
    CASE side = "left" -> Rect_new(u.x + 1, u.y, u.width - 1, u.height)
      [] side = "right" -> Rect_new(u.x, u.y, u.width - 1, u.height)
      [] side = "top" -> Rect_new(u.x, u.y + 1, u.width, u.height - 1)
      [] side = "bottom" -> Rect_new(u.x, u.y, u.width, u.height - 1)

\* C6: for all rectangles r1, r2 of which at least one is non-empty,
\* u = r1.union(&r2) contains r1 and contains r2 (contains_rect), and is
\* minimal: no smaller rectangle contains both.
C6_UnionIsBoundingBox ==
    (call.op = "union" /\ (~is_empty(call.self) \/ ~is_empty(call.other))) =>
        /\ IsRet(ret)
        /\ contains_rect(ret.val, call.self)
        /\ contains_rect(ret.val, call.other)
        /\ \A side \in {"left", "right", "top", "bottom"} :
                (ret.val.width > 0 /\ ret.val.height > 0 /\ ret.val.x < I32_MAX
                 /\ ret.val.y < I32_MAX) =>
                    ~( /\ contains_rect(Shrunk(ret.val, side), call.self)
                       /\ contains_rect(Shrunk(ret.val, side), call.other) )

\* C13: for every Rect, right() equals min(x + width, i32::MAX) and
\* bottom() equals min(y + height, i32::MAX), computed as exact integers;
\* in particular right() >= x and bottom() >= y, and neither wraps nor
\* panics.
C13_EdgesSaturate ==
    /\ (call.op = "right") =>
            ( /\ ret = Ret(Min(call.self.x + call.self.width, I32_MAX))
              /\ ret.val >= call.self.x )
    /\ (call.op = "bottom") =>
            ( /\ ret = Ret(Min(call.self.y + call.self.height, I32_MAX))
              /\ ret.val >= call.self.y )

\* C14: Point::distance_squared(a, b) equals dx*dx + dy*dy as an exact
\* integer, with dx = a.x - b.x and dy = a.y - b.y, for all i32
\* coordinates: no intermediate step overflows.
C14_DistanceSquaredExact ==
    call.op = "distance_squared" =>
        ret = Ret((call.self.x - call.other.x) * (call.self.x - call.other.x)
                  + (call.self.y - call.other.y) * (call.self.y - call.other.y))

\* C23: Rect::contains_point uses half-open intervals: r.contains_point(p)
\* holds if and only if r.x <= p.x < r.right() and r.y <= p.y < r.bottom();
\* the top-left corner of a non-empty rect is inside, the point
\* (right(), bottom()) is outside, and an empty rect contains no point.
C23_ContainsPointIsHalfOpen ==
    (call.op = "contains_point") =>
        /\ ret = Ret(/\ call.self.x <= call.p.x /\ call.p.x < right(call.self)
                     /\ call.self.y <= call.p.y /\ call.p.y < bottom(call.self))
        /\ (~is_empty(call.self) /\ call.p.x = call.self.x
            /\ call.p.y = call.self.y) => ret = Ret(TRUE)
        /\ (call.p.x = right(call.self) /\ call.p.y = bottom(call.self)) =>
                ret = Ret(FALSE)
        /\ is_empty(call.self) => ret = Ret(FALSE)

\* C24: for every Rect r, BufferRegion::from_rect(r) has x = max(r.x, 0),
\* y = max(r.y, 0), width = r.width and height = r.height: a negative
\* origin is clamped to 0, width and height are never reduced to
\* compensate, and the call never fails.
C24_FromRectClampsOrigin ==
    (call.op = "from_rect") =>
        /\ IsRet(ret)
        /\ ret.val.x = Max(call.rect.x, 0)
        /\ ret.val.y = Max(call.rect.y, 0)
        /\ ret.val.width = call.rect.width
        /\ ret.val.height = call.rect.height

\* a rectangle that starts left of and above the buffer kept its extent
C24_Witness ==
    /\ call.op = "from_rect"
    /\ call.rect.x < 0 /\ call.rect.y < 0
    /\ call.rect.width > 0 /\ call.rect.height > 0
    /\ ret = Ret(BufferRegion_new(0, 0, call.rect.width, call.rect.height))

---------------------------------------------------------------------------
(* geometry/transform.rs: Transform2D, over PointF and RectF.              *)
(* An f32 is modelled by an integer: every input is a small integer, and   *)
(* sums and products of small integers are exact in f32, so the model      *)
(* computes exactly what the code computes on these inputs.                *)

PointF_new(x, y) == [x |-> x, y |-> y]

RectF_new(x, y, width, height) ==
    [x |-> x, y |-> y, width |-> width, height |-> height]

RectF_right(r) == r.x + r.width
RectF_bottom(r) == r.y + r.height

absf(v) == IF v < 0 THEN -v ELSE v

Transform2D_new(a, b, c, d, tx, ty) ==
    [a |-> a, b |-> b, c |-> c, d |-> d, tx |-> tx, ty |-> ty]

identity == Transform2D_new(1, 0, 0, 1, 0, 0)

is_scale_translation(t) == t.b = 0 /\ t.c = 0

\* composition taken in the opposite order (other first, then self)
then_reversed(t, other) ==
    [a |-> other.a * t.a + other.b * t.c,
     b |-> other.a * t.b + other.b * t.d,
     c |-> other.c * t.a + other.d * t.c,
     d |-> other.c * t.b + other.d * t.d,
     tx |-> other.tx * t.a + other.ty * t.c + t.tx,
     ty |-> other.tx * t.b + other.ty * t.d + t.ty]

then(t, other) ==
    [a |-> t.a * other.a + t.b * other.c,
     b |-> t.a * other.b + t.b * other.d,
     c |-> t.c * other.a + t.d * other.c,
     d |-> t.c * other.b + t.d * other.d,
     tx |-> t.tx * other.a + t.ty * other.c + other.tx,
     ty |-> t.tx * other.b + t.ty * other.d + other.ty]

transform_point(t, p) ==
    [x |-> t.a * p.x + t.c * p.y + t.tx,
     y |-> t.b * p.x + t.d * p.y + t.ty]

transform_rect(t, r) ==
    IF is_scale_translation(t)
    THEN RectF_new(r.x * t.a + t.tx, r.y * t.d + t.ty,
                   r.width * absf(t.a), r.height * absf(t.d))
    ELSE LET p1 == transform_point(t, PointF_new(r.x, r.y))
             p2 == transform_point(t, PointF_new(RectF_right(r), r.y))
             p3 == transform_point(t, PointF_new(r.x, RectF_bottom(r)))
             p4 == transform_point(t, PointF_new(RectF_right(r), RectF_bottom(r)))
             min_x == Min(Min(Min(p1.x, p2.x), p3.x), p4.x)
             max_x == Max(Max(Max(p1.x, p2.x), p3.x), p4.x)
             min_y == Min(Min(Min(p1.y, p2.y), p3.y), p4.y)
             max_y == Max(Max(Max(p1.y, p2.y), p3.y), p4.y)
         IN  RectF_new(min_x, min_y, max_x - min_x, max_y - min_y)

(* f32 outside the exact small integers.  FloatMax stands for f32::MAX: a  *)
(* result of larger magnitude is an infinity, and the operations on        *)
(* infinities and NaN follow IEEE 754.  The infinities and NaN are held    *)
(* as the integers just above FloatMax, so that every f32 of the model     *)
(* is an integer.                                                          *)

F_INF == FloatMax + 1
F_NAN == FloatMax + 2

is_nan(v) == v = F_NAN
is_finite(v) == -FloatMax <= v /\ v <= FloatMax
signum(v) == IF v < 0 THEN -1 ELSE 1

\* an exact result brought into the range of f32
Fl(v) ==
    IF v > FloatMax THEN F_INF
    ELSE IF v < -FloatMax THEN -F_INF
    ELSE v

fneg(x) == IF is_nan(x) THEN F_NAN ELSE -x

fmul(x, y) ==
    IF is_nan(x) \/ is_nan(y) THEN F_NAN
    ELSE IF is_finite(x) /\ is_finite(y) THEN Fl(x * y)
    ELSE IF x = 0 \/ y = 0 THEN F_NAN
    ELSE signum(x) * signum(y) * F_INF

fsub(x, y) ==
    IF is_nan(x) \/ is_nan(y) THEN F_NAN
    ELSE IF is_finite(x) /\ is_finite(y) THEN Fl(x - y)
    ELSE IF x = y THEN F_NAN
    ELSE IF is_finite(y) THEN x
    ELSE -y

determinant(t) == fsub(fmul(t.a, t.d), fmul(t.b, t.c))

RECURSIVE IsPow2(_)
IsPow2(n) == n = 1 \/ (n > 1 /\ n % 2 = 0 /\ IsPow2(n \div 2))

\* 1.0 / det is exact in f32 when det is a power of two, and its product
\* with x is the integer x / det when det divides x
divides_exactly(x, det) ==
    /\ is_finite(x) /\ is_finite(det) /\ det # 0
    /\ IsPow2(absf(det))
    /\ x % absf(det) = 0

\* x * inv_det, where inv_det = 1.0 / det and det # 0.  A product that f32
\* rounds is kept as the pair it was computed from: the model does not
\* follow its value.
mul_inv_det(x, det) ==
    IF is_nan(x) \/ is_nan(det) THEN F_NAN
    ELSE IF ~is_finite(det) THEN (IF is_finite(x) THEN 0 ELSE F_NAN)
    ELSE IF ~is_finite(x) THEN signum(x) * signum(det) * F_INF
    ELSE IF divides_exactly(x, det) THEN signum(det) * (x \div absf(det))
    ELSE [rounded |-> x, inv_det |-> det]

\* inverse that takes a*d for the determinant
inverse_diagonal(t) ==
    IF fmul(t.a, t.d) = 0
    THEN None
    ELSE Some(Transform2D_new(t.d, fneg(t.b), fneg(t.c), t.a,
                              fneg(t.tx), fneg(t.ty)))

\* inverse that inverts the linear part and only negates the translation
inverse_linear(t) ==
    LET det == determinant(t)
    IN  IF det = 0
        THEN None
        ELSE Some(Transform2D_new(mul_inv_det(t.d, det),
                                  mul_inv_det(fneg(t.b), det),
                                  mul_inv_det(fneg(t.c), det),
                                  mul_inv_det(t.a, det),
                                  mul_inv_det(fneg(t.tx), det),
                                  mul_inv_det(fneg(t.ty), det)))

inverse(t) ==
    LET det == determinant(t)
    IN  IF det = 0
        THEN None
        ELSE Some(Transform2D_new(
                mul_inv_det(t.d, det),
                mul_inv_det(fneg(t.b), det),
                mul_inv_det(fneg(t.c), det),
                mul_inv_det(t.a, det),
                mul_inv_det(fsub(fmul(t.c, t.ty), fmul(t.d, t.tx)), det),
                mul_inv_det(fsub(fmul(t.b, t.tx), fmul(t.a, t.ty)), det)))

\* the numerators of the six fields of inverse(t), before inv_det
inverse_numerators(t) ==
    {t.d, fneg(t.b), fneg(t.c), t.a,
     fsub(fmul(t.c, t.ty), fmul(t.d, t.tx)),
     fsub(fmul(t.b, t.tx), fmul(t.a, t.ty))}

---------------------------------------------------------------------------
(* Transforms: the calls and their arguments *)

Transforms ==
    {Transform2D_new(a, b, c, d, tx, ty) :
        a \in {-2, 0, 1, 3}, b \in {0, 1}, c \in {0, -1}, d \in {-1, 1, 2},
        tx \in {0, 5}, ty \in {0, -3}}

PointFs == {PointF_new(x, y) : x \in {0, 1, -2}, y \in {0, 1, 7}}

RectFs ==
    {RectF_new(x, y, w, h) :
        x \in {-1, 0, 2}, y \in {0, 3}, w \in {0, 1, 4}, h \in {0, 2}}

\* transforms whose products a*d, b*c leave the range of f32
LargeTransforms ==
    {Transform2D_new(a, b, c, d, 0, ty) :
        a \in {FloatMax}, b \in {0, FloatMax}, c \in {0, FloatMax},
        d \in {FloatMax, -FloatMax}, ty \in {0, 7}}

InverseTransforms == Transforms \cup LargeTransforms

InitTransform ==
    /\ overflow_checks \in BOOLEAN
    /\ call = [op |-> "none"]
    /\ ret = None
    /\ object = None
    /\ history = <<>>

Then ==
    /\ Idle
    /\ \E t \in Transforms, other \in Transforms :
        /\ call' = [op |-> "then", self |-> t, other |-> other]
        /\ ret' = Ret(then(t, other))
        /\ UNCHANGED <<overflow_checks, object, history>>

TransformPoint ==
    /\ Idle
    /\ \E t \in Transforms, p \in PointFs :
        /\ call' = [op |-> "transform_point", self |-> t, p |-> p]
        /\ ret' = Ret(transform_point(t, p))
        /\ UNCHANGED <<overflow_checks, object, history>>

\* s.then(&o).transform_point(p): the composite that then returned is
\* applied to a point
ThenTransformPoint ==
    /\ call.op = "then" /\ IsRet(ret)
    /\ \E p \in PointFs :
        /\ call' = [op |-> "then.transform_point",
                    s |-> call.self, o |-> call.other, self |-> ret.val, p |-> p]
        /\ ret' = Ret(transform_point(ret.val, p))
        /\ UNCHANGED <<overflow_checks, object, history>>

TransformRect ==
    /\ Idle
    /\ \E t \in Transforms, r \in RectFs :
        /\ call' = [op |-> "transform_rect", self |-> t, r |-> r]
        /\ ret' = Ret(transform_rect(t, r))
        /\ UNCHANGED <<overflow_checks, object, history>>

Inverse ==
    /\ Idle
    /\ \E t \in InverseTransforms :
        /\ call' = [op |-> "inverse", self |-> t]
        /\ ret' = inverse(t)
        /\ UNCHANGED <<overflow_checks, object, history>>

\* every field of inverse(t) is a number the model follows: an exact
\* quotient, or the zero that the reciprocal of an infinite determinant
\* gives
inverse_is_followed(t) ==
    /\ \A n \in inverse_numerators(t) : is_finite(n)
    /\ ~is_nan(determinant(t))
    /\ \/ ~is_finite(determinant(t))
       \/ \A n \in inverse_numerators(t) : divides_exactly(n, determinant(t))

\* t.then(&t.inverse().unwrap()): the inverse that inverse returned is
\* composed after t
ThenInverse ==
    /\ call.op = "inverse" /\ IsSome(ret)
    /\ inverse_is_followed(call.self)
    /\ call' = [op |-> "inverse.then", self |-> call.self, inv |-> ret.val]
    /\ ret' = Ret(then(call.self, ret.val))
    /\ UNCHANGED <<overflow_checks, object, history>>

NextTransform ==
    \/ Then
    \/ TransformPoint
    \/ ThenTransformPoint
    \/ TransformRect
    \/ Inverse
    \/ ThenInverse

SpecTransform == InitTransform /\ [][NextTransform]_vars

---------------------------------------------------------------------------
(* Claims on transforms (SpecTransform) *)

\* C9: composition is left to right: for all transforms s, o and every
\* point p, s.then(&o).transform_point(p) equals
\* o.transform_point(s.transform_point(p)).
C9_ThenIsLeftToRight ==
    call.op = "then.transform_point" =>
        ret = Ret(transform_point(call.o, transform_point(call.s, call.p)))

\* the composite of two transforms that do not commute was applied to a
\* point that tells the two orders apart
C9_Witness ==
    /\ call.op = "then.transform_point" /\ IsRet(ret)
    /\ then(call.s, call.o) # then(call.o, call.s)
    /\ ret.val # transform_point(call.s, transform_point(call.o, call.p))

\* the axis-aligned bounding box of the four transformed corners of r
CornerBox(t, r) ==
    LET ps == {transform_point(t, PointF_new(x, y)) :
                  x \in {r.x, r.x + r.width}, y \in {r.y, r.y + r.height}}
        lo_x == CHOOSE v \in {p.x : p \in ps} : \A p \in ps : v <= p.x
        hi_x == CHOOSE v \in {p.x : p \in ps} : \A p \in ps : v >= p.x
        lo_y == CHOOSE v \in {p.y : p \in ps} : \A p \in ps : v <= p.y
        hi_y == CHOOSE v \in {p.y : p \in ps} : \A p \in ps : v >= p.y
    IN  RectF_new(lo_x, lo_y, hi_x - lo_x, hi_y - lo_y)

\* C10: for every transform t and every rectangle r with non-negative
\* width and height, t.transform_rect(r) is the axis-aligned bounding box
\* of the four transformed corners of r; the scale+translate fast path
\* (b = 0 and c = 0, negative scale factors included) returns the same
\* rectangle as the four-corner path.
C10_TransformRectIsCornerBox ==
    call.op = "transform_rect" => ret = Ret(CornerBox(call.self, call.r))

\* C11: Transform2D::inverse() returns None exactly when determinant(),
\* a*d - b*c, equals 0, and Some otherwise; it never panics.
C11_InverseNoneIffDetZero ==
    call.op = "inverse" =>
        /\ ~IsPanic(ret)
        /\ IsNone(ret) \/ IsSome(ret)
        /\ IsNone(ret) <=> determinant(call.self) = 0
        /\ (is_finite(call.self.a * call.self.d)
            /\ is_finite(call.self.b * call.self.c)) =>
                (IsNone(ret) <=>
                    call.self.a * call.self.d - call.self.b * call.self.c = 0)

\* inverse refused a transform whose diagonal product is not zero
C11_Witness ==
    /\ call.op = "inverse" /\ IsNone(ret)
    /\ call.self.a * call.self.d # 0

\* inverse accepted a transform whose diagonal product is zero
C11_SomeWitness ==
    /\ call.op = "inverse" /\ IsSome(ret)
    /\ call.self.a * call.self.d = 0

\* the divisions by the determinant are exact: the determinant is finite
\* and every field of the inverse is an exact quotient
inverse_is_exact(t) ==
    \A n \in inverse_numerators(t) : divides_exactly(n, determinant(t))

---------------------------------------------------------------------------
(* buffer/handle.rs: BufferHandle, a u64 holding an id in its low word and *)
(* a generation in its high word.  u64 is two machine words wide, so the   *)
(* shift by 32 is a shift by WordBits.                                     *)

U64_MOD == Pow2(2 * WordBits)
U64_MAX == U64_MOD - 1

RECURSIVE BitOr(_, _)
BitOr(a, b) ==
    IF a = 0 THEN b
    ELSE IF b = 0 THEN a
    ELSE (IF a % 2 = 1 \/ b % 2 = 1 THEN 1 ELSE 0)
         + 2 * BitOr(a \div 2, b \div 2)

Shl64(v, bits) == (v * Pow2(bits)) % U64_MOD
Shr64(v, bits) == v \div Pow2(bits)

BufferHandle(raw) == [raw |-> raw]

INVALID == BufferHandle(0)

from_raw(raw) == BufferHandle(raw)

is_valid(h) == h.raw # 0

raw(h) == h.raw

id(h) == WrapU32(h.raw)

\* generation that reads the low word
generation_low(h) == WrapU32(h.raw)

generation(h) == WrapU32(Shr64(h.raw, WordBits))

from_id_gen(i, g) == BufferHandle(BitOr(Shl64(g, WordBits), i))

BufferHandle_new(i, g) == from_id_gen(i, g)

---------------------------------------------------------------------------
(* Handles: the calls and their arguments *)

HandleIds == {0, 1, 42, Pow2(WordBits - 1), U32_MAX - 1, U32_MAX}
HandleGenerations == {0, 1, 2, Pow2(WordBits - 1), U32_MAX}
HandleRaws ==
    {0, 1, 42, U32_MAX, U32_MOD, U32_MOD + 42, 2 * U32_MOD + 1,
     U64_MAX - U32_MAX, U64_MAX - 1, U64_MAX}

InitHandle ==
    /\ overflow_checks \in BOOLEAN
    /\ call = [op |-> "none"]
    /\ ret = None
    /\ object = None
    /\ history = <<>>

HandleNew ==
    /\ Idle
    /\ \E i \in HandleIds, g \in HandleGenerations :
        /\ call' = [op |-> "new", id |-> i, generation |-> g]
        /\ ret' = Ret(BufferHandle_new(i, g))
        /\ UNCHANGED <<overflow_checks, object, history>>

HandleFromRaw ==
    /\ Idle
    /\ \E w \in HandleRaws :
        /\ call' = [op |-> "from_raw", raw |-> w]
        /\ ret' = Ret(from_raw(w))
        /\ UNCHANGED <<overflow_checks, object, history>>

\* a handle was just made by new or from_raw
HandleMade == call.op \in {"new", "from_raw"} /\ IsRet(ret)

HandleRaw ==
    /\ HandleMade
    /\ call' = [op |-> "raw", self |-> ret.val, made |-> call]
    /\ ret' = Ret(raw(ret.val))
    /\ UNCHANGED <<overflow_checks, object, history>>

HandleId ==
    /\ HandleMade
    /\ call' = [op |-> "id", self |-> ret.val, made |-> call]
    /\ ret' = Ret(id(ret.val))
    /\ UNCHANGED <<overflow_checks, object, history>>

HandleGeneration ==
    /\ HandleMade
    /\ call' = [op |-> "generation", self |-> ret.val, made |-> call]
    /\ ret' = Ret(generation(ret.val))
    /\ UNCHANGED <<overflow_checks, object, history>>

HandleIsValid ==
    /\ HandleMade
    /\ call' = [op |-> "is_valid", self |-> ret.val, made |-> call]
    /\ ret' = Ret(is_valid(ret.val))
    /\ UNCHANGED <<overflow_checks, object, history>>

\* BufferHandle::new(h.id(), h.generation()) for the handle h just made
HandleRebuild ==
    /\ HandleMade
    /\ call' = [op |-> "new(id, generation)", self |-> ret.val, made |-> call]
    /\ ret' = Ret(BufferHandle_new(id(ret.val), generation(ret.val)))
    /\ UNCHANGED <<overflow_checks, object, history>>

NextHandle ==
    \/ HandleNew
    \/ HandleFromRaw
    \/ HandleRaw
    \/ HandleId
    \/ HandleGeneration
    \/ HandleIsValid
    \/ HandleRebuild

SpecHandle == InitHandle /\ [][NextHandle]_vars

---------------------------------------------------------------------------
(* Claims on handles (SpecHandle) *)

\* C15: BufferHandle packs id and generation losslessly:
\* new(id, gen).raw() is id | (gen << 32), the generation in the high word
\* and the id in the low word, id() and generation() recover the two
\* arguments, and for every u64 raw,
\* new(from_raw(raw).id(), from_raw(raw).generation()).raw() is raw.
\* The raw value 0 is the invalid handle: is_valid() is false exactly
\* for 0.
C15_HandlePacksIdAndGeneration ==
    /\ (call.op = "raw" /\ call.made.op = "new") =>
            ret = Ret(call.made.generation * U32_MOD + call.made.id)
    /\ (call.op = "id" /\ call.made.op = "new") => ret = Ret(call.made.id)
    /\ (call.op = "generation" /\ call.made.op = "new") =>
            ret = Ret(call.made.generation)
    /\ (call.op = "new(id, generation)" /\ call.made.op = "from_raw") =>
            (IsRet(ret) /\ raw(ret.val) = call.made.raw)
    /\ (call.op = "is_valid" /\ call.made.op = "from_raw") =>
            ret = Ret(call.made.raw # 0)
    /\ (call.op = "is_valid" /\ call.made.op = "new") =>
            ret = Ret(call.made.id # 0 \/ call.made.generation # 0)
    /\ (call.op = "new" /\ call.id = 42 /\ call.generation = 1) =>
            ret = Ret(BufferHandle(U32_MOD + 42))

\* a raw value with bits in both words was taken apart and rebuilt
C15_Witness ==
    /\ call.op = "new(id, generation)" /\ call.made.op = "from_raw"
    /\ id(call.self) # 0 /\ generation(call.self) # 0
    /\ id(call.self) # generation(call.self)
    /\ IsRet(ret) /\ raw(ret.val) = call.made.raw

\* the generation of a handle made by new with distinct id and generation
\* was read back
C15_GenerationWitness ==
    /\ call.op = "generation" /\ call.made.op = "new"
    /\ call.made.id # call.made.generation
    /\ ret = Ret(call.made.generation)

---------------------------------------------------------------------------
(* color/format.rs: the numeric codes of PixelFormat *)

as_u32(f) ==
    CASE f = "ARGB8888" -> 0
      [] f = "XRGB8888" -> 1
      [] f = "RGB565" -> 2
      [] f = "BGRA8888" -> 3
      [] f = "RGBA8888" -> 4
      [] f = "RGB888" -> 5
      [] f = "BGR888" -> 6
      [] f = "Gray8" -> 7
      [] f = "Gray16" -> 8
      [] f = "Alpha8" -> 9

\* from_u32 with the codes of BGRA8888 and RGBA8888 exchanged
from_u32_exchanged(value) ==
    CASE value = 0 -> Some("ARGB8888")
      [] value = 1 -> Some("XRGB8888")
      [] value = 2 -> Some("RGB565")
      [] value = 3 -> Some("RGBA8888")
      [] value = 4 -> Some("BGRA8888")
      [] value = 5 -> Some("RGB888")
      [] value = 6 -> Some("BGR888")
      [] value = 7 -> Some("Gray8")
      [] value = 8 -> Some("Gray16")
      [] value = 9 -> Some("Alpha8")
      [] OTHER -> None

from_u32(value) ==
    CASE value = 0 -> Some("ARGB8888")
      [] value = 1 -> Some("XRGB8888")
      [] value = 2 -> Some("RGB565")
      [] value = 3 -> Some("BGRA8888")
      [] value = 4 -> Some("RGBA8888")
      [] value = 5 -> Some("RGB888")
      [] value = 6 -> Some("BGR888")
      [] value = 7 -> Some("Gray8")
      [] value = 8 -> Some("Gray16")
      [] value = 9 -> Some("Alpha8")
      [] OTHER -> None

---------------------------------------------------------------------------
(* color/blend.rs: BlendMode, an enum over u8 *)

BlendMode ==
    {"Normal",
     "SourceOver", "SourceIn", "SourceOut", "SourceAtop", "DestOver",
     "DestIn", "DestOut", "DestAtop", "Xor", "Clear",
     "Multiply", "Screen", "Overlay", "Darken", "Lighten", "ColorDodge",
     "ColorBurn", "HardLight", "SoftLight", "Difference", "Exclusion",
     "Add", "Subtract"}

\* `*self as u8`: the discriminant of the variant
as_u8(m) ==
    CASE m = "Normal" -> 0
      [] m = "SourceOver" -> 1
      [] m = "SourceIn" -> 2
      [] m = "SourceOut" -> 3
      [] m = "SourceAtop" -> 4
      [] m = "DestOver" -> 5
      [] m = "DestIn" -> 6
      [] m = "DestOut" -> 7
      [] m = "DestAtop" -> 8
      [] m = "Xor" -> 9
      [] m = "Clear" -> 10
      [] m = "Multiply" -> 20
      [] m = "Screen" -> 21
      [] m = "Overlay" -> 22
      [] m = "Darken" -> 23
      [] m = "Lighten" -> 24
      [] m = "ColorDodge" -> 25
      [] m = "ColorBurn" -> 26
      [] m = "HardLight" -> 27
      [] m = "SoftLight" -> 28
      [] m = "Difference" -> 29
      [] m = "Exclusion" -> 30
      [] m = "Add" -> 40
      [] m = "Subtract" -> 41

is_porter_duff(m) == as_u8(m) >= 1 /\ as_u8(m) <= 10

\* is_photoshop_style whose range starts at 10
is_photoshop_style_from_10(m) == as_u8(m) >= 10 /\ as_u8(m) <= 30

is_photoshop_style(m) == as_u8(m) >= 20 /\ as_u8(m) <= 30

---------------------------------------------------------------------------
(* color/color.rs: Color, one u32 0xAARRGGBB.  The components are real     *)
(* bytes, so the word has its real 32 bits; it is held as its two 16-bit   *)
(* halves, since a u32 does not fit the integers the model computes with.  *)

HalfMod == Pow2(16)

Word(hi, lo) == [hi |-> hi, lo |-> lo]

\* `v as u32` of a byte
u8_as_u32(v) == Word(0, v)

\* w << bits and w >> bits on u32, for 0 <= bits < 32
Shl32(w, bits) ==
    IF bits >= 16
    THEN Word((w.lo * Pow2(bits - 16)) % HalfMod, 0)
    ELSE Word((w.hi * Pow2(bits) + (w.lo * Pow2(bits)) \div HalfMod) % HalfMod,
              (w.lo * Pow2(bits)) % HalfMod)

Shr32(w, bits) ==
    IF bits >= 16
    THEN Word(0, w.hi \div Pow2(bits - 16))
    ELSE Word(w.hi \div Pow2(bits),
              w.lo \div Pow2(bits) + (w.hi % Pow2(bits)) * Pow2(16 - bits))

Or32(v, w) == Word(BitOr(v.hi, w.hi), BitOr(v.lo, w.lo))

\* `(w & 0xFF) as u8`
low_byte(w) == w.lo % 256

Color(w) == [raw |-> w]

Color_from_raw(w) == Color(w)

\* argb that packs the components as 0xRRGGBBAA
argb_alpha_last(a, r, g, b) ==
    Color(Or32(Or32(Or32(Shl32(u8_as_u32(r), 24), Shl32(u8_as_u32(g), 16)),
                    Shl32(u8_as_u32(b), 8)),
               u8_as_u32(a)))

argb(a, r, g, b) ==
    Color(Or32(Or32(Or32(Shl32(u8_as_u32(a), 24), Shl32(u8_as_u32(r), 16)),
                    Shl32(u8_as_u32(g), 8)),
               u8_as_u32(b)))

rgb(r, g, b) == argb(255, r, g, b)

alpha(c) == low_byte(Shr32(c.raw, 24))
red(c) == low_byte(Shr32(c.raw, 16))
green(c) == low_byte(Shr32(c.raw, 8))
blue(c) == low_byte(c.raw)

---------------------------------------------------------------------------
(* f32 with its 24-bit significand, for the conversions between Color and  *)
(* ColorF.  A finite f32 is sign, m and e with value m / 2^e, m < 2^24;    *)
(* division and multiplication round to nearest, ties to even, as the      *)
(* hardware does.                                                          *)

F32(neg, m, e) == [neg |-> neg, m |-> m, e |-> e]

F32_ZERO == F32(FALSE, 0, 0)
F32_ONE == F32(FALSE, 1, 0)

RECURSIVE BitLen(_)
BitLen(n) == IF n = 0 THEN 0 ELSE 1 + BitLen(n \div 2)

\* long division: quotient bits of n / d are produced until the quotient
\* has 24 bits
RECURSIVE DivBits(_, _, _, _)
DivBits(q, rem, e, d) ==
    IF q >= Pow2(23)
    THEN [q |-> q, rem |-> rem, e |-> e]
    ELSE IF 2 * rem >= d
         THEN DivBits(2 * q + 1, 2 * rem - d, e + 1, d)
         ELSE DivBits(2 * q, 2 * rem, e + 1, d)

\* division that drops the bits after the 24th
f32_div_truncating(n, d) ==
    IF n % d = 0
    THEN F32(FALSE, n \div d, 0)
    ELSE LET r == DivBits(n \div d, n % d, 0, d)
         IN  F32(FALSE, r.q, r.e)

\* `n as f32 / d as f32` for integers 0 <= n < 2^23, 0 < d
f32_div(n, d) ==
    IF n % d = 0
    THEN F32(FALSE, n \div d, 0)
    ELSE LET r == DivBits(n \div d, n % d, 0, d)
             up == 2 * r.rem > d \/ (2 * r.rem = d /\ r.q % 2 = 1)
             m == r.q + (IF up THEN 1 ELSE 0)
         IN  IF m = Pow2(24)
             THEN F32(FALSE, Pow2(23), r.e - 1)
             ELSE F32(FALSE, m, r.e)

\* `f * k` for an integer 0 < k < 2^12: the exact product m * k is
\* A * 2^12 + B, and the bits below its 24 leading bits are rounded away
f32_mul(f, k) ==
    LET low == (f.m % Pow2(12)) * k
        A == (f.m \div Pow2(12)) * k + low \div Pow2(12)
        B == low % Pow2(12)
        drop == BitLen(A) - 12
        kept == A * Pow2(12 - drop) + B \div Pow2(drop)
        rest == B % Pow2(drop)
        up == \/ 2 * rest > Pow2(drop)
              \/ 2 * rest = Pow2(drop) /\ kept % 2 = 1
        m == kept + (IF up THEN 1 ELSE 0)
    IN  IF A < Pow2(12)
        THEN F32(f.neg, A * Pow2(12) + B, f.e)
        ELSE IF m = Pow2(24)
             THEN F32(f.neg, Pow2(23), f.e - drop - 1)
             ELSE F32(f.neg, m, f.e - drop)

\* `f as u8`: the fraction is dropped and the result saturates
f32_as_u8(f) ==
    IF f.neg THEN 0
    ELSE IF f.e >= 24 THEN 0
    ELSE Min(255, f.m \div Pow2(f.e))

\* f.clamp(0.0, 1.0)
clamp01(f) ==
    IF f.neg /\ f.m > 0 THEN F32_ZERO
    ELSE IF f.e < 24 /\ f.m > Pow2(f.e) THEN F32_ONE
    ELSE f

ColorF_new(r, g, b, a) == [r |-> r, g |-> g, b |-> b, a |-> a]

to_float(c) ==
    [r |-> f32_div(red(c), 255),
     g |-> f32_div(green(c), 255),
     b |-> f32_div(blue(c), 255),
     a |-> f32_div(alpha(c), 255)]

saturate(cf) ==
    [r |-> clamp01(cf.r), g |-> clamp01(cf.g),
     b |-> clamp01(cf.b), a |-> clamp01(cf.a)]

to_color(cf) ==
    LET s == saturate(cf)
    IN  argb(f32_as_u8(f32_mul(s.a, 255)),
             f32_as_u8(f32_mul(s.r, 255)),
             f32_as_u8(f32_mul(s.g, 255)),
             f32_as_u8(f32_mul(s.b, 255)))

\* the signed numerator of f over 2^e
f32_num(f) == IF f.neg THEN -f.m ELSE f.m

\* n / 2^e in lowest terms.  The sums, differences and products below are
\* exact in f32 as long as the numerator has at most 24 bits, which holds
\* for the bytes and the short binary fractions they are applied to.
RECURSIVE f32_of(_, _)
f32_of(n, e) ==
    IF e > 0 /\ n % 2 = 0
    THEN f32_of(n \div 2, e - 1)
    ELSE F32(n < 0, absf(n), e)

f32_add(x, y) ==
    LET e == Max(x.e, y.e)
    IN  f32_of(f32_num(x) * Pow2(e - x.e) + f32_num(y) * Pow2(e - y.e), e)

f32_sub(x, y) ==
    LET e == Max(x.e, y.e)
    IN  f32_of(f32_num(x) * Pow2(e - x.e) - f32_num(y) * Pow2(e - y.e), e)

f32_times(x, y) == f32_of(f32_num(x) * f32_num(y), x.e + y.e)

\* `v as f32` of a byte
u8_as_f32(v) == F32(FALSE, v, 0)

f32_lt(x, y) == f32_num(x) * Pow2(y.e) < f32_num(y) * Pow2(x.e)

\* one channel of Color::lerp
lerp_channel(v, w, t, inv_t) ==
    f32_as_u8(f32_add(f32_times(u8_as_f32(v), inv_t),
                      f32_times(u8_as_f32(w), t)))

\* lerp that does not clamp t
lerp_unclamped(c, other, t0) ==
    LET t == t0
        inv_t == f32_sub(F32_ONE, t)
    IN  argb(lerp_channel(alpha(c), alpha(other), t, inv_t),
             lerp_channel(red(c), red(other), t, inv_t),
             lerp_channel(green(c), green(other), t, inv_t),
             lerp_channel(blue(c), blue(other), t, inv_t))

lerp(c, other, t0) ==
    LET t == clamp01(t0)
        inv_t == f32_sub(F32_ONE, t)
    IN  argb(lerp_channel(alpha(c), alpha(other), t, inv_t),
             lerp_channel(red(c), red(other), t, inv_t),
             lerp_channel(green(c), green(other), t, inv_t),
             lerp_channel(blue(c), blue(other), t, inv_t))

ColorF_lerp(cf, other, t) ==
    [r |-> f32_add(cf.r, f32_times(f32_sub(other.r, cf.r), t)),
     g |-> f32_add(cf.g, f32_times(f32_sub(other.g, cf.g), t)),
     b |-> f32_add(cf.b, f32_times(f32_sub(other.b, cf.b), t)),
     a |-> f32_add(cf.a, f32_times(f32_sub(other.a, cf.a), t))]

\* invert that inverts alpha as well
invert_all(c) ==
    argb(255 - alpha(c), 255 - red(c), 255 - green(c), 255 - blue(c))

invert(c) == argb(alpha(c), 255 - red(c), 255 - green(c), 255 - blue(c))

---------------------------------------------------------------------------
(* Colours: the calls and their arguments *)

FormatValues == (0 .. 12) \cup {Pow2(WordBits - 1), U32_MAX - 1, U32_MAX}

Bytes == 0 .. 255
ByteSamples == {0, 1, 127, 128, 255}

\* every level occurs in each of the three channels
RgbInputs ==
    {<<v, (7 * v + 3) % 256, 255 - v>> : v \in Bytes}
        \cup {<<v, v, v>> : v \in ByteSamples}

HalfSamples == {0, 1, 255, 256, 4660, 32768, 43981, 65280, 65535}
ColorWords == {Word(hi, lo) : hi \in HalfSamples, lo \in HalfSamples}

\* 0.0, 0.25, 0.5, 0.75, 1.0, 1.5 and -0.5
FloatSamples ==
    {F32_ZERO, F32(FALSE, 1, 2), F32(FALSE, 1, 1), F32(FALSE, 3, 2), F32_ONE,
     F32(FALSE, 3, 1), F32(TRUE, 1, 1)}

ColorFs ==
    {ColorF_new(r, g, b, a) :
        r \in FloatSamples, g \in FloatSamples, b \in FloatSamples,
        a \in {F32_ONE, F32(FALSE, 1, 1)}}

\* -0.5, 0.0, 0.25, 0.5, 1.0, 1.5 and 2.0
LerpTs ==
    {F32(TRUE, 1, 1), F32_ZERO, F32(FALSE, 1, 2), F32(FALSE, 1, 1), F32_ONE,
     F32(FALSE, 3, 1), F32(FALSE, 2, 0)}

LerpColors ==
    {argb(a, r, g, b) :
        a \in {0, 255}, r \in {0, 100, 255}, g \in {1, 254}, b \in {128}}

LerpColorFs ==
    {ColorF_new(r, g, b, a) :
        r \in {F32_ZERO, F32_ONE, F32(FALSE, 1, 1)},
        g \in {F32_ZERO, F32(FALSE, 1, 2)},
        b \in {F32(FALSE, 3, 2)},
        a \in {F32_ONE, F32(FALSE, 1, 1)}}

InvertColors == {Color(w) : w \in ColorWords} \cup {rgb(100, 150, 200)}

InitColor ==
    /\ overflow_checks \in BOOLEAN
    /\ call = [op |-> "none"]
    /\ ret = None
    /\ object = None
    /\ history = <<>>

FormatAsU32 ==
    /\ Idle
    /\ \E f \in PixelFormat :
        /\ call' = [op |-> "as_u32", self |-> f]
        /\ ret' = Ret(as_u32(f))
        /\ UNCHANGED <<overflow_checks, object, history>>

FormatFromU32 ==
    /\ Idle
    /\ \E v \in FormatValues :
        /\ call' = [op |-> "from_u32", value |-> v]
        /\ ret' = from_u32(v)
        /\ UNCHANGED <<overflow_checks, object, history>>

\* PixelFormat::from_u32(f.as_u32())
FormatAsU32FromU32 ==
    /\ call.op = "as_u32" /\ IsRet(ret)
    /\ call' = [op |-> "as_u32.from_u32", self |-> call.self, value |-> ret.val]
    /\ ret' = from_u32(ret.val)
    /\ UNCHANGED <<overflow_checks, object, history>>

IsPorterDuff ==
    /\ Idle
    /\ \E m \in BlendMode :
        /\ call' = [op |-> "is_porter_duff", self |-> m]
        /\ ret' = Ret(is_porter_duff(m))
        /\ UNCHANGED <<overflow_checks, object, history>>

IsPhotoshopStyle ==
    /\ Idle
    /\ \E m \in BlendMode :
        /\ call' = [op |-> "is_photoshop_style", self |-> m]
        /\ ret' = Ret(is_photoshop_style(m))
        /\ UNCHANGED <<overflow_checks, object, history>>

Argb ==
    /\ Idle
    /\ \E a \in ByteSamples, r \in ByteSamples, g \in ByteSamples,
          b \in ByteSamples :
        /\ call' = [op |-> "argb", a |-> a, r |-> r, g |-> g, b |-> b]
        /\ ret' = Ret(argb(a, r, g, b))
        /\ UNCHANGED <<overflow_checks, object, history>>

Rgb ==
    /\ Idle
    /\ \E c \in RgbInputs :
        /\ call' = [op |-> "rgb", r |-> c[1], g |-> c[2], b |-> c[3]]
        /\ ret' = Ret(rgb(c[1], c[2], c[3]))
        /\ UNCHANGED <<overflow_checks, object, history>>

ColorFromRaw ==
    /\ Idle
    /\ \E w \in ColorWords :
        /\ call' = [op |-> "from_raw", raw |-> w]
        /\ ret' = Ret(Color_from_raw(w))
        /\ UNCHANGED <<overflow_checks, object, history>>

\* a colour was just made by argb, rgb or from_raw
ColorMade == call.op \in {"argb", "rgb", "from_raw"} /\ IsRet(ret)

Alpha ==
    /\ ColorMade
    /\ call' = [op |-> "alpha", self |-> ret.val, made |-> call]
    /\ ret' = Ret(alpha(ret.val))
    /\ UNCHANGED <<overflow_checks, object, history>>

Red ==
    /\ ColorMade
    /\ call' = [op |-> "red", self |-> ret.val, made |-> call]
    /\ ret' = Ret(red(ret.val))
    /\ UNCHANGED <<overflow_checks, object, history>>

Green ==
    /\ ColorMade
    /\ call' = [op |-> "green", self |-> ret.val, made |-> call]
    /\ ret' = Ret(green(ret.val))
    /\ UNCHANGED <<overflow_checks, object, history>>

Blue ==
    /\ ColorMade
    /\ call' = [op |-> "blue", self |-> ret.val, made |-> call]
    /\ ret' = Ret(blue(ret.val))
    /\ UNCHANGED <<overflow_checks, object, history>>

\* Color::argb(c.alpha(), c.red(), c.green(), c.blue()) for the colour c
\* just made
ArgbOfAccessors ==
    /\ ColorMade
    /\ call' = [op |-> "argb(accessors)", self |-> ret.val, made |-> call]
    /\ ret' = Ret(argb(alpha(ret.val), red(ret.val), green(ret.val),
                       blue(ret.val)))
    /\ UNCHANGED <<overflow_checks, object, history>>

\* Color::rgb(r, g, b).to_float()
ToFloat ==
    /\ call.op = "rgb" /\ IsRet(ret)
    /\ call' = [op |-> "rgb.to_float", self |-> ret.val, made |-> call]
    /\ ret' = Ret(to_float(ret.val))
    /\ UNCHANGED <<overflow_checks, object, history>>

\* Color::rgb(r, g, b).to_float().to_color()
ToFloatToColor ==
    /\ call.op = "rgb.to_float" /\ IsRet(ret)
    /\ call' = [op |-> "rgb.to_float.to_color", self |-> ret.val,
                made |-> call.made]
    /\ ret' = Ret(to_color(ret.val))
    /\ UNCHANGED <<overflow_checks, object, history>>

\* ColorF::new(r, g, b, a).to_color()
ToColor ==
    /\ Idle
    /\ \E cf \in ColorFs :
        /\ call' = [op |-> "to_color", self |-> cf]
        /\ ret' = Ret(to_color(cf))
        /\ UNCHANGED <<overflow_checks, object, history>>

Lerp ==
    /\ Idle
    /\ \E c \in LerpColors, other \in LerpColors, t \in LerpTs :
        /\ call' = [op |-> "lerp", self |-> c, other |-> other, t |-> t]
        /\ ret' = Ret(lerp(c, other, t))
        /\ UNCHANGED <<overflow_checks, object, history>>

ColorFLerp ==
    /\ Idle
    /\ \E cf \in LerpColorFs, other \in LerpColorFs, t \in LerpTs :
        /\ call' = [op |-> "ColorF.lerp", self |-> cf, other |-> other, t |-> t]
        /\ ret' = Ret(ColorF_lerp(cf, other, t))
        /\ UNCHANGED <<overflow_checks, object, history>>

Invert ==
    /\ Idle
    /\ \E c \in InvertColors :
        /\ call' = [op |-> "invert", self |-> c]
        /\ ret' = Ret(invert(c))
        /\ UNCHANGED <<overflow_checks, object, history>>

\* c.invert().invert()
InvertInvert ==
    /\ call.op = "invert" /\ IsRet(ret)
    /\ call' = [op |-> "invert.invert", self |-> ret.val, made |-> call]
    /\ ret' = Ret(invert(ret.val))
    /\ UNCHANGED <<overflow_checks, object, history>>

NextColor ==
    \/ FormatAsU32
    \/ FormatFromU32
    \/ FormatAsU32FromU32
    \/ IsPorterDuff
    \/ IsPhotoshopStyle
    \/ Argb
    \/ Rgb
    \/ ColorFromRaw
    \/ Alpha
    \/ Red
    \/ Green
    \/ Blue
    \/ ArgbOfAccessors
    \/ ToFloat
    \/ ToFloatToColor
    \/ ToColor
    \/ Lerp
    \/ ColorFLerp
    \/ Invert
    \/ InvertInvert

SpecColor == InitColor /\ [][NextColor]_vars

---------------------------------------------------------------------------
(* Claims on colours (SpecColor) *)

\* the variants in the order of their codes, ARGB8888 = 0 first
FormatsByCode ==
    <<"ARGB8888", "XRGB8888", "RGB565", "BGRA8888", "RGBA8888",
      "RGB888", "BGR888", "Gray8", "Gray16", "Alpha8">>

\* C16: PixelFormat round-trips through its numeric code: for every
\* variant f, from_u32(f.as_u32()) is Some(f), with the fixed values
\* ARGB8888=0, XRGB8888=1, RGB565=2, BGRA8888=3, RGBA8888=4, RGB888=5,
\* BGR888=6, Gray8=7, Gray16=8, Alpha8=9; for every u32 v, from_u32(v) is
\* Some(f) with f.as_u32() = v when v <= 9 and None otherwise.
C16_FormatCodesRoundTrip ==
    /\ (call.op = "as_u32") =>
            (IsRet(ret) /\ ret.val \in 0 .. 9
             /\ FormatsByCode[ret.val + 1] = call.self)
    /\ (call.op = "as_u32.from_u32") => ret = Some(call.self)
    /\ (call.op = "from_u32" /\ call.value <= 9) =>
            (IsSome(ret) /\ FormatsByCode[call.value + 1] = ret.val
             /\ as_u32(ret.val) = call.value)
    /\ (call.op = "from_u32" /\ call.value > 9) => IsNone(ret)

\* BGRA8888 went to its code 3 and came back
C16_Witness ==
    /\ call.op = "as_u32.from_u32" /\ call.self = "BGRA8888"
    /\ call.value = 3 /\ ret = Some("BGRA8888")

\* a code above 9 was refused
C16_NoneWitness ==
    call.op = "from_u32" /\ call.value = 10 /\ IsNone(ret)

\* the classes a blend mode belongs to
BlendClasses(m) ==
    {k \in {"porter_duff", "photoshop_style", "additive"} :
        \/ k = "porter_duff" /\ is_porter_duff(m)
        \/ k = "photoshop_style" /\ is_photoshop_style(m)
        \/ k = "additive" /\ as_u8(m) \in 40 .. 41}

\* is_porter_duff and is_photoshop_style answer by the stated ranges
BlendRangeChecks ==
    /\ (call.op = "is_porter_duff") =>
            ret = Ret(as_u8(call.self) \in 1 .. 10)
    /\ (call.op = "is_photoshop_style") =>
            ret = Ret(as_u8(call.self) \in 20 .. 30)

\* C17 as stated: every BlendMode variant belongs to exactly one of the
\* classes Porter-Duff (discriminant in [1,10], is_porter_duff() true),
\* Photoshop-style (discriminant in [20,30], is_photoshop_style() true) or
\* additive (discriminant in [40,41]).
C17_EveryModeInOneBand ==
    /\ BlendRangeChecks
    /\ (call.op \in {"is_porter_duff", "is_photoshop_style"}) =>
            Cardinality(BlendClasses(call.self)) = 1

\* C17: every BlendMode variant other than Normal belongs to exactly one
\* of the classes Porter-Duff, Photoshop-style and additive; Normal
\* (discriminant 0) belongs to none of them.
C17_EveryModeButNormalInOneBand ==
    /\ BlendRangeChecks
    /\ (call.op \in {"is_porter_duff", "is_photoshop_style"}) =>
            Cardinality(BlendClasses(call.self)) =
                (IF call.self = "Normal" THEN 0 ELSE 1)

\* Clear, the last Porter-Duff mode, was asked whether it is
\* Photoshop-style and is not
C17_Witness ==
    /\ call.op = "is_photoshop_style" /\ call.self = "Clear"
    /\ ret = Ret(FALSE)
    /\ BlendClasses(call.self) = {"porter_duff"}

\* C18: Color packs its components as 0xAARRGGBB: for all u8 a, r, g, b,
\* Color::argb(a, r, g, b) has the raw value (a<<24)|(r<<16)|(g<<8)|b and
\* alpha(), red(), green(), blue() return a, r, g, b; Color::rgb(r, g, b)
\* has alpha 255; and for every u32 w, rebuilding Color::argb from the
\* four accessors of Color(w) gives back Color(w).
C18_ColorPacksArgb ==
    /\ (call.op = "argb") =>
            ret = Ret(Color(Word(256 * call.a + call.r, 256 * call.g + call.b)))
    /\ (call.op = "alpha" /\ call.made.op = "argb") => ret = Ret(call.made.a)
    /\ (call.op = "red" /\ call.made.op \in {"argb", "rgb"}) =>
            ret = Ret(call.made.r)
    /\ (call.op = "green" /\ call.made.op \in {"argb", "rgb"}) =>
            ret = Ret(call.made.g)
    /\ (call.op = "blue" /\ call.made.op \in {"argb", "rgb"}) =>
            ret = Ret(call.made.b)
    /\ (call.op = "alpha" /\ call.made.op = "rgb") => ret = Ret(255)
    /\ (call.op = "argb(accessors)" /\ call.made.op = "from_raw") =>
            ret = Ret(Color(call.made.raw))

\* the word 0x1234ABCD was taken apart into four different bytes and
\* rebuilt
C18_Witness ==
    /\ call.op = "argb(accessors)" /\ call.made.op = "from_raw"
    /\ call.made.raw = Word(4660, 43981)
    /\ alpha(call.self) = 18 /\ red(call.self) = 52
    /\ green(call.self) = 171 /\ blue(call.self) = 205
    /\ ret = Ret(Color(call.made.raw))

\* C19: the round trip Color -> ColorF -> Color is lossless: for all u8
\* r, g, b, Color::rgb(r, g, b).to_float().to_color() is
\* Color::rgb(r, g, b), that is (r, g, b, 255).
C19_FloatRoundTripIsLossless ==
    (call.op = "rgb.to_float.to_color") =>
        /\ ret = Ret(rgb(call.made.r, call.made.g, call.made.b))
        /\ red(ret.val) = call.made.r /\ green(ret.val) = call.made.g
        /\ blue(ret.val) = call.made.b /\ alpha(ret.val) = 255

\* the level 1 went through 1/255, which f32 rounds, and came back
C19_Witness ==
    /\ call.op = "rgb.to_float.to_color" /\ call.made.r = 1
    /\ call.self.r.e > 24
    /\ red(ret.val) = 1

\* the 8-bit level nearest to the saturated component f, halves upwards
nearest_level(f) ==
    LET s == clamp01(f)
    IN  (2 * 255 * s.m + Pow2(s.e)) \div Pow2(s.e + 1)

\* C20: ColorF::to_color converts each component, after saturation to
\* [0,1], to the nearest 8-bit level, so that
\* ColorF::new(1.0, 0.5, 0.0, 1.0).to_color() has red 255, green 128 and
\* blue 0.
C20_ToColorIsNearestLevel ==
    /\ (call.op = "to_color") =>
            ret = Ret(argb(nearest_level(call.self.a), nearest_level(call.self.r),
                           nearest_level(call.self.g), nearest_level(call.self.b)))
    /\ (call.op = "to_color"
        /\ call.self = ColorF_new(F32_ONE, F32(FALSE, 1, 1), F32_ZERO, F32_ONE)) =>
            (red(ret.val) = 255 /\ green(ret.val) = 128 /\ blue(ret.val) = 0)

\* C21, the integer half, which both statements of C21 share: Color::lerp
\* clamps its parameter, so t <= 0 gives the first colour and t >= 1 the
\* second
LerpClampsT ==
    /\ (call.op = "lerp" /\ ~f32_lt(F32_ZERO, call.t)) => ret = Ret(call.self)
    /\ (call.op = "lerp" /\ ~f32_lt(call.t, F32_ONE)) => ret = Ret(call.other)

\* t lies outside [0, 1]
OutsideUnit(t) == f32_lt(t, F32_ZERO) \/ f32_lt(F32_ONE, t)

\* v lies strictly outside the interval between x and y
OutsideSegment(v, x, y) ==
    \/ f32_lt(v, x) /\ f32_lt(v, y)
    \/ f32_lt(x, v) /\ f32_lt(y, v)

\* the exact value of x + (y - x) * t is v
IsExtrapolation(v, x, y, t) ==
    LET e == Max(x.e, y.e) + t.e
        d == f32_num(y) * Pow2(Max(x.e, y.e) - y.e)
             - f32_num(x) * Pow2(Max(x.e, y.e) - x.e)
    IN  f32_num(v) * Pow2(e) =
            (f32_num(x) * Pow2(e - x.e) + d * f32_num(t)) * Pow2(v.e)

Channels == {"r", "g", "b", "a"}

C21_FloatWitness ==
    /\ call.op = "ColorF.lerp" /\ call.t = F32(FALSE, 3, 1)
    /\ call.self.r = F32_ZERO /\ call.other.r = F32_ONE
    /\ ret.val.r = F32(FALSE, 3, 1)

\* C22: for every Color c, c.invert() has red 255 - c.red(), green
\* 255 - c.green(), blue 255 - c.blue() and the alpha of c (rgb(100,150,200)
\* becomes rgb(155,105,55) with alpha 255); consequently
\* c.invert().invert() is c.
C22_InvertKeepsAlpha ==
    /\ (call.op = "invert") =>
            /\ IsRet(ret)
            /\ red(ret.val) = 255 - red(call.self)
            /\ green(ret.val) = 255 - green(call.self)
            /\ blue(ret.val) = 255 - blue(call.self)
            /\ alpha(ret.val) = alpha(call.self)
    /\ (call.op = "invert" /\ call.self = rgb(100, 150, 200)) =>
            ret = Ret(rgb(155, 105, 55))
    /\ (call.op = "invert.invert") => ret = Ret(call.made.self)

\* a colour with alpha 0x12 was inverted twice
C22_Witness ==
    /\ call.op = "invert.invert" /\ alpha(call.made.self) = 18
    /\ call.self # call.made.self
    /\ ret = Ret(call.made.self)

---------------------------------------------------------------------------
(***************************************************************************)
(* StaticPolygon (geometry/polygon.rs): a fixed array of                   *)
(* MAX_STATIC_POINTS points of which the first `count` are live, and a     *)
(* closed flag.  Sequences are 1-based, so the Rust slot i is points[i+1]. *)
(* A `&mut self` method that returns a value is an operator giving both    *)
(* the polygon afterwards and the value: [self, ret].                      *)
(***************************************************************************)
MAX_STATIC_POINTS == 16

PointF_ZERO == PointF_new(0, 0)

StaticPolygon(points, count, closed) ==
    [points |-> points, count |-> count, closed |-> closed]

StaticPolygon_new ==
    StaticPolygon([i \in 1..MAX_STATIC_POINTS |-> PointF_ZERO], 0, TRUE)

len(self) == self.count

is_closed(self) == self.closed

set_closed(self, closed) == [self EXCEPT !.closed = closed]

\* A push that, when the array is full, overwrites the last slot instead
\* of leaving the polygon alone.
push_overwriting(self, point) ==
    IF self.count >= MAX_STATIC_POINTS
    THEN [self |-> [self EXCEPT !.points[MAX_STATIC_POINTS] = point],
          ret |-> FALSE]
    ELSE [self |-> [self EXCEPT !.points[self.count + 1] = point,
                                !.count = self.count + 1],
          ret |-> TRUE]

\* count < MAX_STATIC_POINTS where it is incremented, so `count += 1`
\* cannot overflow a usize.
push(self, point) ==
    IF self.count >= MAX_STATIC_POINTS
    THEN [self |-> self, ret |-> FALSE]
    ELSE [self |-> [self EXCEPT !.points[self.count + 1] = point,
                                !.count = self.count + 1],
          ret |-> TRUE]

\* A get that checks the index against the array, not against count.
get_any_slot(self, index) ==
    IF index < MAX_STATIC_POINTS THEN Some(self.points[index + 1]) ELSE None

get(self, index) ==
    IF index < self.count THEN Some(self.points[index + 1]) ELSE None

iter(self) == SubSeq(self.points, 1, self.count)

\* clear only resets count: the array keeps the old points.
clear(self) == [self EXCEPT !.count = 0]

(***************************************************************************)
(* One polygon, created by new(), takes any sequence of push, clear,       *)
(* set_closed, get, iter and len.  history holds the points pushed with    *)
(* success, one run per clear: its last run is what was pushed since the   *)
(* most recent clear.  A pushed point carries its slot number in x and the *)
(* number of its run in y, so a point of an earlier run is never equal to  *)
(* one of the current run; the first point of a run is one of two.         *)
(***************************************************************************)
MaxClears == 1

PushPoints(self, run) ==
    IF self.count = 0
    THEN {PointF_new(1, run), PointF_new(-1, run)}
    ELSE {PointF_new(self.count + 1, run)}

\* The indices get is called with: the first slots, the last slot and the
\* first two past the array.
GetIndices ==
    {0, 2, MAX_STATIC_POINTS - 1, MAX_STATIC_POINTS, MAX_STATIC_POINTS + 1}

\* Every index up to one past the array.
AllIndices == 0..(MAX_STATIC_POINTS + 1)

ThisRun == history[Len(history)]

\* No polygon operation does arithmetic that can overflow, so the build
\* makes no difference to it and one build is taken.
InitPolygon ==
    /\ overflow_checks = FALSE
    /\ call = [op |-> "new"]
    /\ ret = Ret(StaticPolygon_new)
    /\ object = StaticPolygon_new
    /\ history = << <<>> >>

PolygonPush ==
    \E p \in PushPoints(object, Len(history)) :
        /\ call' = [op |-> "push", self |-> object, point |-> p]
        /\ object' = push(object, p).self
        /\ ret' = Ret(push(object, p).ret)
        /\ history' = IF push(object, p).ret
                      THEN [history EXCEPT ![Len(history)] = Append(@, p)]
                      ELSE history
        /\ UNCHANGED overflow_checks

PolygonClear ==
    /\ Len(history) <= MaxClears
    /\ call' = [op |-> "clear", self |-> object]
    /\ object' = clear(object)
    /\ ret' = Ret(<<>>)
    /\ history' = Append(history, <<>>)
    /\ UNCHANGED overflow_checks

PolygonSetClosed ==
    \E closed \in BOOLEAN :
        /\ call' = [op |-> "set_closed", self |-> object, closed |-> closed]
        /\ object' = set_closed(object, closed)
        /\ ret' = Ret(<<>>)
        /\ UNCHANGED <<overflow_checks, history>>

PolygonGet ==
    \E index \in GetIndices :
        /\ call' = [op |-> "get", self |-> object, index |-> index]
        /\ ret' = Ret(get(object, index))
        /\ UNCHANGED <<overflow_checks, object, history>>

PolygonIter ==
    /\ call' = [op |-> "iter", self |-> object]
    /\ ret' = Ret(iter(object))
    /\ UNCHANGED <<overflow_checks, object, history>>

PolygonLen ==
    /\ call' = [op |-> "len", self |-> object]
    /\ ret' = Ret(len(object))
    /\ UNCHANGED <<overflow_checks, object, history>>

NextPolygon ==
    \/ PolygonPush
    \/ PolygonClear
    \/ PolygonSetClosed
    \/ PolygonGet
    \/ PolygonIter
    \/ PolygonLen

SpecPolygon == InitPolygon /\ [][NextPolygon]_vars

\* C27: after any sequence of push, clear and set_closed the polygon has
\* len() <= MAX_STATIC_POINTS; a push on a polygon with len() < 16
\* returns true and makes len() one more; a push on a polygon with
\* len() = 16 returns false and leaves len(), the stored points and the
\* closed flag as they were.
C27_PushIsBoundedByCapacity ==
    /\ len(object) <= MAX_STATIC_POINTS
    /\ (call.op = "push" /\ len(call.self) < MAX_STATIC_POINTS) =>
           (ret = Ret(TRUE) /\ len(object) = len(call.self) + 1)
    /\ (call.op = "push" /\ len(call.self) = MAX_STATIC_POINTS) =>
           (/\ ret = Ret(FALSE)
            /\ len(object) = len(call.self)
            /\ object.points = call.self.points
            /\ is_closed(object) = is_closed(call.self))

\* A push was refused on a full, open polygon that had been cleared
\* before.
C27_Witness ==
    /\ call.op = "push" /\ len(call.self) = MAX_STATIC_POINTS
    /\ ret = Ret(FALSE)
    /\ ~is_closed(object)
    /\ Len(history) = 2

\* A push was accepted as the sixteenth point.
C27_AcceptedWitness ==
    /\ call.op = "push" /\ ret = Ret(TRUE)
    /\ len(object) = MAX_STATIC_POINTS

\* C28: after any sequence of push and clear, get(i) is Some of the
\* (i+1)-th point pushed with success since the most recent clear for
\* every i < len() and None for every i >= len(); iter yields exactly
\* those points in order, so no point stored before a clear is returned
\* afterwards; clear leaves the closed flag unchanged.
C28_GetReturnsPushesSinceClear ==
    /\ len(object) = Len(ThisRun)
    /\ \A i \in AllIndices :
           get(object, i) = IF i < len(object) THEN Some(ThisRun[i + 1])
                            ELSE None
    /\ call.op = "get" =>
           ret = Ret(IF call.index < Len(ThisRun)
                     THEN Some(ThisRun[call.index + 1]) ELSE None)
    /\ call.op = "iter" => ret = Ret(ThisRun)
    /\ call.op = "clear" =>
           (len(object) = 0 /\ is_closed(object) = is_closed(call.self))

\* After a clear and two pushes, get(2) returned None although slot 2
\* still holds a point of the run before the clear.
C28_Witness ==
    /\ call.op = "get" /\ call.index = 2
    /\ Len(history) = 2 /\ Len(ThisRun) = 2 /\ Len(history[1]) >= 3
    /\ ret = Ret(None)
    /\ object.points[3] = history[1][3]

\* After a clear, get(0) returned the first point pushed after it.
C28_SomeWitness ==
    /\ call.op = "get" /\ call.index = 0
    /\ Len(history) = 2 /\ Len(history[1]) > 0
    /\ ret = Ret(Some(PointF_new(-1, 2)))

---------------------------------------------------------------------------
(***************************************************************************)
(* ClipRect (render/clip.rs): a rectangle and an enabled flag.  Both       *)
(* fields are public, so a disabled clip may hold any rectangle.           *)
(***************************************************************************)
Rect_ZERO == Rect_new(0, 0, 0, 0)

ClipRect(rect, enabled) == [rect |-> rect, enabled |-> enabled]

ClipRect_new(rect) == ClipRect(rect, TRUE)

ClipRect_NONE == ClipRect(Rect_ZERO, FALSE)

ClipRect_contains(self, x, y) ==
    IF ~self.enabled THEN TRUE
    ELSE contains_point(self.rect, Point_new(x, y))

\* the subtractions of Rect::intersection, reached when both are enabled
intersect_overflows(self, other) ==
    self.enabled /\ other.enabled
    /\ intersection_overflows(self.rect, other.rect)

\* An intersect that turns an empty intersection into the disabled clip.
intersect_empty_is_none(self, other) ==
    IF ~self.enabled THEN other
    ELSE IF ~other.enabled THEN self
    ELSE LET i == intersection(self.rect, other.rect)
         IN  IF IsSome(i) THEN ClipRect_new(i.val) ELSE ClipRect_NONE

intersect(self, other) ==
    IF ~self.enabled THEN other
    ELSE IF ~other.enabled THEN self
    ELSE LET i == intersection(self.rect, other.rect)
         IN  IF IsSome(i) THEN ClipRect_new(i.val)
             ELSE ClipRect(Rect_ZERO, TRUE)

ClipRect_is_empty(self) == self.enabled /\ is_empty(self.rect)

(***************************************************************************)
(* A clip stack folded with intersect: object is the clip accumulated so   *)
(* far, starting from ClipRect::NONE, and history the clips folded into    *)
(* it.  The rectangles reach from i32::MIN to i32::MAX and have widths up  *)
(* to u32::MAX; the points are every corner coordinate of a rectangle and  *)
(* the coordinates next to its edges.                                      *)
(***************************************************************************)
MaxClips == 2

ClipXs == {I32_MIN, 0, 50}
ClipWidths == {0, 100, U32_MAX}
ClipYs == {0, 50}

Clips ==
    {ClipRect_new(Rect_new(x, 0, w, 100)) : x \in ClipXs, w \in ClipWidths}
    \cup {ClipRect_NONE,
          ClipRect(Rect_new(0, 0, 100, 100), FALSE),
          ClipRect_new(Rect_new(0, 50, 100, 100)),
          ClipRect_new(Rect_new(I32_MAX - 1, 0, 100, 100))}

ClipPoints ==
    {Point_new(x, y) :
        x \in ClipXs \cup {99, 100, I32_MAX - 1, I32_MAX},
        y \in ClipYs \cup {99, 100}}

InitClip ==
    /\ overflow_checks \in BOOLEAN
    /\ call = [op |-> "none"]
    /\ ret = None
    /\ object = ClipRect_NONE
    /\ history = <<>>

\* object = object.intersect(&other); a panic leaves the clip as it was
ClipIntersect ==
    /\ Len(history) < MaxClips
    /\ ret # Panic
    /\ \E other \in Clips :
        /\ call' = [op |-> "intersect", self |-> object, other |-> other]
        /\ ret' = Outcome(intersect_overflows(object, other),
                          Ret(intersect(object, other)))
        /\ object' = IF IsPanic(ret') THEN object ELSE ret'.val
        /\ history' = Append(history, other)
        /\ UNCHANGED overflow_checks

ClipContains ==
    /\ ret # Panic
    /\ \E p \in ClipPoints :
        /\ call' = [op |-> "contains", self |-> object, x |-> p.x, y |-> p.y]
        /\ ret' = Ret(ClipRect_contains(object, p.x, p.y))
        /\ UNCHANGED <<overflow_checks, object, history>>

ClipIsEmpty ==
    /\ ret # Panic
    /\ call' = [op |-> "is_empty", self |-> object]
    /\ ret' = Ret(ClipRect_is_empty(object))
    /\ UNCHANGED <<overflow_checks, object, history>>

NextClip ==
    \/ ClipIntersect
    \/ ClipContains
    \/ ClipIsEmpty

SpecClip == InitClip /\ [][NextClip]_vars

\* Two clips have no point in common.  Where two rectangles overlap, the
\* larger of their left edges and the larger of their top edges is a
\* common point, and ClipPoints holds every such corner.
Disjoint(a, b) ==
    ~\E p \in ClipPoints :
        ClipRect_contains(a, p.x, p.y) /\ ClipRect_contains(b, p.x, p.y)

\* The clip folded so far contains a point exactly when every clip of
\* the sequence does, and so does each single intersect and each answer
\* of contains.
IntersectIsConjunction ==
    /\ ret # Panic
    /\ \A p \in ClipPoints :
           ClipRect_contains(object, p.x, p.y)
               = (\A i \in 1..Len(history) :
                      ClipRect_contains(history[i], p.x, p.y))
    /\ call.op = "intersect" =>
           /\ ret = Ret(object)
           /\ \A p \in ClipPoints :
                  ClipRect_contains(object, p.x, p.y)
                      = (ClipRect_contains(call.self, p.x, p.y)
                         /\ ClipRect_contains(call.other, p.x, p.y))
    /\ call.op = "contains" =>
           ret = Ret(\A i \in 1..Len(history) :
                         ClipRect_contains(history[i], call.x, call.y))

\* Two enabled clips with no common point give the enabled empty clip.
DisjointGivesEmpty ==
    (call.op = "intersect" /\ call.self.enabled /\ call.other.enabled
     /\ Disjoint(call.self, call.other)) =>
        (/\ object.enabled
         /\ ClipRect_is_empty(object)
         /\ \A p \in ClipPoints : ~ClipRect_contains(object, p.x, p.y))

\* C29 as stated: a.intersect(&b) contains a point exactly when a and b
\* both contain it; ClipRect::NONE is the identity of intersect, on either
\* side and for every clip; so the clip folded from a sequence contains a
\* point exactly when every clip of the sequence does; and two enabled
\* clips with no common point give an enabled, empty clip that contains no
\* point.
C29_NoneIsIdentity ==
    /\ IntersectIsConjunction
    /\ DisjointGivesEmpty
    /\ call.op = "intersect" =>
           /\ call.self = ClipRect_NONE => object = call.other
           /\ call.other = ClipRect_NONE => object = call.self

\* C29, amended: as above, but ClipRect::NONE is a right identity only for
\* the enabled clips and for itself: a disabled self always returns the
\* other clip, so a disabled clip that holds another rectangle comes back
\* as ClipRect::NONE, which contains the same points but is not equal.
C29_NoneIsIdentityOfEnabled ==
    /\ IntersectIsConjunction
    /\ DisjointGivesEmpty
    /\ call.op = "intersect" =>
           /\ ~call.self.enabled => object = call.other
           /\ (call.self.enabled /\ ~call.other.enabled) =>
                  object = call.self

\* Two overlapping enabled clips were folded and the result was asked for
\* a point that only the first of them contains.
C29_Witness ==
    /\ call.op = "contains" /\ ret = Ret(FALSE)
    /\ Len(history) = 2
    /\ history[1].enabled /\ history[2].enabled
    /\ ~ClipRect_is_empty(object)
    /\ ClipRect_contains(history[1], call.x, call.y)
    /\ ~ClipRect_contains(history[2], call.x, call.y)

\* Two disjoint non-empty enabled clips were folded into the enabled
\* empty clip.
C29_DisjointWitness ==
    /\ call.op = "intersect"
    /\ call.self.enabled /\ ~ClipRect_is_empty(call.self)
    /\ call.other.enabled /\ ~ClipRect_is_empty(call.other)
    /\ Disjoint(call.self, call.other)
    /\ object = ClipRect(Rect_ZERO, TRUE)

---------------------------------------------------------------------------
(***************************************************************************)
(* DamageRegion (damage/region.rs): a rectangle; union is Rect::union.     *)
(***************************************************************************)
DamageRegion(rect) == [rect |-> rect]

DamageRegion_EMPTY == DamageRegion(Rect_ZERO)

DamageRegion_is_empty(self) == is_empty(self.rect)

DamageRegion_union_overflows(self, other) ==
    union_overflows(self.rect, other.rect)

DamageRegion_union(self, other) ==
    DamageRegion(union(self.rect, other.rect))

(***************************************************************************)
(* Damage accumulated by union: object is the region accumulated so far,   *)
(* starting from DamageRegion::EMPTY, and history the regions added.       *)
(***************************************************************************)
MaxRegions == 3

DamageRects ==
    {Rect_new(x, 0, w, 2) : x \in {I32_MIN, 0, 50, I32_MAX - 1},
                            w \in {0, 1, 100, U32_MAX}}
    \cup {Rect_new(0, 50, 100, 100), Rect_new(50, 50, 100, 0)}

Regions == {DamageRegion(r) : r \in DamageRects}

InitDamage ==
    /\ overflow_checks \in BOOLEAN
    /\ call = [op |-> "none"]
    /\ ret = None
    /\ object = DamageRegion_EMPTY
    /\ history = <<>>

\* object = object.union(&other); a panic leaves the region as it was
DamageUnion ==
    /\ Len(history) < MaxRegions
    /\ ret # Panic
    /\ \E other \in Regions :
        /\ call' = [op |-> "union", self |-> object, other |-> other]
        /\ ret' = Outcome(DamageRegion_union_overflows(object, other),
                          Ret(DamageRegion_union(object, other)))
        /\ object' = IF IsPanic(ret') THEN object ELSE ret'.val
        /\ history' = Append(history, other)
        /\ UNCHANGED overflow_checks

DamageIsEmpty ==
    /\ ret # Panic
    /\ call' = [op |-> "is_empty", self |-> object]
    /\ ret' = Ret(DamageRegion_is_empty(object))
    /\ UNCHANGED <<overflow_checks, object, history>>

\* object.rect.contains_rect(&added.rect) for a region added before
DamageContainsRect ==
    /\ ret # Panic
    /\ \E i \in 1..Len(history) :
        /\ call' = [op |-> "contains_rect", self |-> object,
                    other |-> history[i]]
        /\ ret' = Ret(contains_rect(object.rect, history[i].rect))
        /\ UNCHANGED <<overflow_checks, object, history>>

NextDamage ==
    \/ DamageUnion
    \/ DamageIsEmpty
    \/ DamageContainsRect

SpecDamage == InitDamage /\ [][NextDamage]_vars

\* The non-empty regions of a sequence, in order.
RECURSIVE NonEmpty(_)
NonEmpty(regions) ==
    IF regions = <<>> THEN <<>>
    ELSE IF DamageRegion_is_empty(Head(regions))
         THEN NonEmpty(Tail(regions))
         ELSE <<Head(regions)>> \o NonEmpty(Tail(regions))

\* The accumulation of a sequence, or Panic where a union of it panics.
RECURSIVE Accumulate(_, _)
Accumulate(acc, regions) ==
    IF regions = <<>> THEN Ret(acc)
    ELSE IF overflow_checks
            /\ DamageRegion_union_overflows(acc, Head(regions))
         THEN Panic
         ELSE Accumulate(DamageRegion_union(acc, Head(regions)),
                         Tail(regions))

\* The orders a sequence can be taken in.
Orders(regions) ==
    {[i \in 1..Len(regions) |-> regions[f[i]]] :
        f \in {g \in [1..Len(regions) -> 1..Len(regions)] :
                  \A i, j \in 1..Len(regions) : g[i] = g[j] => i = j}}

\* C30: the region accumulated from DamageRegion::EMPTY contains
\* (contains_rect) every non-empty region added so far, is empty exactly
\* when every added region was empty, and, for the non-empty regions
\* added, is the same in whatever order they are added.
C30_DamageCoversEveryRegion ==
    /\ ret # Panic
    /\ \A i \in 1..Len(history) :
           ~DamageRegion_is_empty(history[i]) =>
               contains_rect(object.rect, history[i].rect)
    /\ DamageRegion_is_empty(object)
           = (\A i \in 1..Len(history) : DamageRegion_is_empty(history[i]))
    /\ \A o \in Orders(NonEmpty(history)) :
           Accumulate(DamageRegion_EMPTY, o)
               = Accumulate(DamageRegion_EMPTY, NonEmpty(history))

=============================================================================
